---- MODULE Spec2Model ----
(***************************************************************************)
(* Campaign transformation and enrichment pipeline of store-ops-auto:      *)
(* CampaignService (transform_to_falcon_format, process_campaign_data) on  *)
(* top of the Akeneo PIM client (AkeneoService).                           *)
(*                                                                         *)
(* Python values whose type matters (JSON attribute data, Optional fields) *)
(* are tagged records [t, s, n]; amounts of money are integers in          *)
(* thousandths of a currency unit, so that x 0.979 and x 1.5 stay exact.   *)
(***************************************************************************)
EXTENDS Integers, Sequences, FiniteSets, TLC

\* ------------------------------------------------------------------ bounds
\* longest list handed to process_campaign_data
MaxBatch == 2
\* number of get_product calls in flight at once on one client
NumThreads == 2
\* longest list of asset codes in an asset collection value
MaxAssets == 2
\* longest list handed to filter_active_campaigns
MaxCampaigns == 2
\* moments told apart within one day, the first one being midnight
TicksPerDay == 2
\* largest number of attribute codes present in one PIM product payload
MaxAttrs == 2

\* ------------------------------------------------------- python values
None == [t |-> "none", s |-> "", n |-> 0]
Str(x) == [t |-> "str", s |-> x, n |-> 0]
Num(k) == [t |-> "num", s |-> "", n |-> k]
\* a JSON array of k elements
List(k) == [t |-> "list", s |-> "", n |-> k]

\* python truthiness: `not v`
Falsy(v) ==
    \/ v.t = "none"
    \/ v.t = "str" /\ v.s = ""
    \/ v.t = "num" /\ v.n = 0
    \/ v.t = "list" /\ v.n = 0

\* Optional results of the transform: <<>> is None, <<x>> is x
Nothing == <<>>
Just(x) == <<x>>

\* ------------------------------------------------------------- settings
DEFAULT_MOP_MULTIPLIER == 979
DEFAULT_COINS == 2000

\* ------------------------------------------------------------ PIM side
\* attribute codes read by the client
MrpAttributes == <<"mrp", "MRP", "maximum_retail_price", "list_price">>
AttrCodes == {"sku"} \cup {MrpAttributes[i] : i \in 1..Len(MrpAttributes)}

\* values of the "data" member of a product value
DataVals == {None, Str(""), Str("S1"), Str("250"), Num(0), Num(250000), List(1)}
\* product.values[code]: a list of Value objects; only its first entry is read
ValueLists == {<<>>} \cup {<<d>> : d \in DataVals}
\* product_data["values"]: attribute code -> list of values
Payloads ==
    UNION {[S -> ValueLists] : S \in {X \in SUBSET AttrCodes : Cardinality(X) <= MaxAttrs}}

NoValues == [c \in {} |-> <<>>]

\* answers of POST /api/oauth/v1/token
TokenResponses ==
    { [raises |-> TRUE, status_code |-> 0, access_token |-> None],
      [raises |-> FALSE, status_code |-> 401, access_token |-> None],
      [raises |-> FALSE, status_code |-> 200, access_token |-> Str("T1")],
      [raises |-> FALSE, status_code |-> 200, access_token |-> None] }

\* answers of GET /api/rest/v1/products/{id}
ProductResponses ==
    { [raises |-> TRUE, status_code |-> 0, wellformed |-> FALSE, values |-> NoValues],
      [raises |-> FALSE, status_code |-> 404, wellformed |-> FALSE, values |-> NoValues],
      [raises |-> FALSE, status_code |-> 500, wellformed |-> FALSE, values |-> NoValues],
      [raises |-> FALSE, status_code |-> 200, wellformed |-> FALSE, values |-> NoValues] }
    \cup { [raises |-> FALSE, status_code |-> 200, wellformed |-> TRUE, values |-> p] :
             p \in Payloads }

\* the answers drawn while a batch runs: a timeout, not found, a server error,
\* a product without attributes, one whose sku is a JSON array, one with sku
\* and mrp, one whose sku is empty and whose mrp is 0
BatchProductResponses ==
    { [raises |-> TRUE, status_code |-> 0, wellformed |-> FALSE, values |-> NoValues],
      [raises |-> FALSE, status_code |-> 404, wellformed |-> FALSE, values |-> NoValues],
      [raises |-> FALSE, status_code |-> 500, wellformed |-> FALSE, values |-> NoValues],
      [raises |-> FALSE, status_code |-> 200, wellformed |-> TRUE,
       values |-> [c \in {"sku", "mrp"} |->
                     IF c = "sku" THEN <<Str("")>> ELSE <<Num(0)>>]],
      [raises |-> FALSE, status_code |-> 200, wellformed |-> TRUE, values |-> NoValues],
      [raises |-> FALSE, status_code |-> 200, wellformed |-> TRUE,
       values |-> [c \in {"sku"} |-> <<List(1)>>]],
      [raises |-> FALSE, status_code |-> 200, wellformed |-> TRUE,
       values |-> [c \in {"sku", "mrp"} |->
                     IF c = "sku" THEN <<Str("S1")>> ELSE <<Num(250000)>>]] }

\* the answer that stands for "no request was issued" where a call takes one
Unasked == [raises |-> TRUE, status_code |-> 0, wellformed |-> FALSE,
            values |-> NoValues, access_token |-> None]

\* ------------------------------------------------------- AkeneoService
\* the client's state: AkeneoService._access_token, AssetService._access_token
Service(tok, atok) == [access_token |-> tok, asset_token |-> atok]

\* a token getter that fails once a token is cached
GetAccessTokenCachedFails(svc, tr) ==
    IF ~Falsy(svc.access_token)
    THEN [raised |-> TRUE, ret |-> None, svc |-> svc, auth |-> 0]
    ELSE IF ~tr.raises /\ tr.status_code = 200
         THEN [raised |-> FALSE, ret |-> tr.access_token,
               svc |-> Service(tr.access_token, tr.access_token), auth |-> 1]
         ELSE [raised |-> TRUE, ret |-> None, svc |-> svc, auth |-> 1]

\* a token getter that keeps the body of a refusal as if it were the token
GetAccessTokenPoisoned(svc, tr) ==
    IF ~Falsy(svc.access_token)
    THEN [raised |-> FALSE, ret |-> svc.access_token, svc |-> svc, auth |-> 0]
    ELSE IF ~tr.raises /\ tr.status_code = 200
         THEN [raised |-> FALSE, ret |-> tr.access_token,
               svc |-> Service(tr.access_token, tr.access_token), auth |-> 1]
         ELSE [raised |-> TRUE, ret |-> None,
               svc |-> Service(Str("refused"), svc.asset_token), auth |-> 1]

\* _get_access_token: cached token, or one authentication request
GetAccessToken(svc, tr) ==
    IF ~Falsy(svc.access_token)
    THEN [raised |-> FALSE, ret |-> svc.access_token, svc |-> svc, auth |-> 0]
    ELSE IF ~tr.raises /\ tr.status_code = 200
         THEN [raised |-> FALSE, ret |-> tr.access_token,
               svc |-> Service(tr.access_token, tr.access_token), auth |-> 1]
         ELSE [raised |-> TRUE, ret |-> None, svc |-> svc, auth |-> 1]

\* why a product fetch failed ("" when it did not)
FailureOf(pr) ==
    IF pr.raises THEN "error"
    ELSE IF pr.status_code = 404 THEN "notfound"
    ELSE IF pr.status_code # 200 THEN "status"
    ELSE IF ~pr.wellformed THEN "malformed"
    ELSE ""

\* get_product once _get_access_token has returned or raised (a): the lookup
\* request, its status check and the parsing of the payload
LookupWithToken(a, failure, pr) ==
    IF a.raised
    THEN [raised |-> TRUE, failure |-> "auth", values |-> NoValues,
          svc |-> a.svc, auth |-> a.auth, lookups |-> 0]
    ELSE [raised |-> failure # "", failure |-> failure,
          values |-> IF failure = "" THEN pr.values ELSE NoValues,
          svc |-> a.svc, auth |-> a.auth, lookups |-> 1]

\* get_product: token first, then one lookup request
GetProduct(svc, product_id, tr, pr) ==
    LookupWithToken(GetAccessToken(svc, tr), FailureOf(pr), pr)

\* an SKU mapping that falls back to product_id when the first "sku" value
\* has no data
SkuOfProductSkippingNull(g, product_id) ==
    [ret |-> IF g.raised THEN None
             ELSE IF /\ "sku" \in DOMAIN g.values /\ g.values["sku"] # <<>>
                     /\ g.values["sku"][1] # None
                  THEN g.values["sku"][1]
                  ELSE Str(product_id),
     failure |-> g.failure, svc |-> g.svc, auth |-> g.auth, lookups |-> g.lookups]

\* get_product_sku_mapping after get_product (g): first "sku" value, else
\* product_id, None when get_product raised
SkuOfProduct(g, product_id) ==
    [ret |-> IF g.raised THEN None
             ELSE IF "sku" \in DOMAIN g.values /\ g.values["sku"] # <<>>
                  THEN g.values["sku"][1]
                  ELSE Str(product_id),
     failure |-> g.failure, svc |-> g.svc, auth |-> g.auth, lookups |-> g.lookups]

GetProductSkuMapping(svc, product_id, tr, pr) ==
    SkuOfProduct(GetProduct(svc, product_id, tr, pr), product_id)

\* float(value): a number as it is, a string by parsing it (ValueError when
\* it is not a numeral), anything else is a TypeError: [raised, val]
Float(v) ==
    IF v.t = "num" THEN [raised |-> FALSE, val |-> v]
    ELSE IF v.t = "str" /\ v.s = "250" THEN [raised |-> FALSE, val |-> Num(250000)]
    ELSE [raised |-> TRUE, val |-> None]

\* the probing loop of get_product_mrp from candidate i on; the exception of
\* float() ends the loop in the handler, which returns None
RECURSIVE ProbeMrp(_, _)
ProbeMrp(values, i) ==
    IF i > Len(MrpAttributes) THEN None
    ELSE IF /\ MrpAttributes[i] \in DOMAIN values
            /\ values[MrpAttributes[i]] # <<>>
            /\ values[MrpAttributes[i]][1] # None
         THEN Float(values[MrpAttributes[i]][1]).val
         ELSE ProbeMrp(values, i + 1)

\* get_product_mrp after get_product (g): first usable candidate as float
MrpOfProduct(g) ==
    [ret |-> IF g.raised THEN None ELSE ProbeMrp(g.values, 1),
     failure |-> g.failure, svc |-> g.svc, auth |-> g.auth, lookups |-> g.lookups]

GetProductMrp(svc, product_id, tr, pr) ==
    MrpOfProduct(GetProduct(svc, product_id, tr, pr))

\* ----------------------------------------------------- CampaignService
\* RawCampaignData, the fields the pipeline reads
RawRecords ==
    [product_id : {"", "P1"},
     preferred_landing_sku_id : {None, Str(""), Str("K1")},
     MRP : {None, Num(0), Num(300000)},
     selling_price : {0, 100000}]

\* the records a batch is made of
BatchRecords ==
    { [product_id |-> "P1", preferred_landing_sku_id |-> None,
       MRP |-> None, selling_price |-> 100000],
      [product_id |-> "P1", preferred_landing_sku_id |-> None,
       MRP |-> Num(300000), selling_price |-> 100000],
      [product_id |-> "P1", preferred_landing_sku_id |-> Str("K1"),
       MRP |-> Num(300000), selling_price |-> 100000],
      [product_id |-> "", preferred_landing_sku_id |-> Str(""),
       MRP |-> Num(0), selling_price |-> 0] }

RECURSIVE SeqsUpTo(_, _)
SeqsUpTo(S, k) ==
    IF k = 0 THEN {<<>>}
    ELSE SeqsUpTo(S, k - 1) \cup {Append(q, x) : q \in SeqsUpTo(S, k - 1), x \in S}

\* a resolution step that fetches the product before it looks at the record
ResolvedPrefetching(value, called, m, svc) ==
    [value |-> value,
     called |-> called,
     ret |-> IF called THEN m.ret ELSE None,
     failure |-> IF called THEN m.failure ELSE "",
     svc |-> m.svc,
     auth |-> m.auth,
     lookups |-> m.lookups]

\* the result of a resolution step that did or did not call the PIM (m)
Resolved(value, called, m, svc) ==
    [value |-> value,
     called |-> called,
     ret |-> IF called THEN m.ret ELSE None,
     failure |-> IF called THEN m.failure ELSE "",
     svc |-> IF called THEN m.svc ELSE svc,
     auth |-> IF called THEN m.auth ELSE 0,
     lookups |-> IF called THEN m.lookups ELSE 0]

\* an SKU choice without the fallback to product_id
SkuChoiceNoFallback(raw, called, ret) ==
    IF called THEN ret ELSE raw.preferred_landing_sku_id

\* lines 37-43: the preferred SKU, else the PIM answer, else product_id
SkuChoice(raw, called, ret) ==
    IF ~called THEN raw.preferred_landing_sku_id
    ELSE IF Falsy(ret) THEN Str(raw.product_id)
    ELSE ret

\* ResolveSku once the PIM has answered (m)
SkuResolved(raw, svc, called, m) ==
    Resolved(SkuChoice(raw, called, IF called THEN m.ret ELSE None), called, m, svc)

\* an SKU resolution that asks the PIM whether or not the record has a
\* preferred landing SKU
ResolveSkuAlways(raw, svc, tr, pr) ==
    SkuResolved(raw, svc, TRUE, GetProductSkuMapping(svc, raw.product_id, tr, pr))

\* transform_to_falcon_format, SKU resolution: the PIM is called only when the
\* record has no preferred landing SKU
ResolveSku(raw, svc, tr, pr) ==
    SkuResolved(raw, svc, Falsy(raw.preferred_landing_sku_id),
                GetProductSkuMapping(svc, raw.product_id, tr, pr))

\* an MRP choice whose fallback is the selling price itself
MrpChoiceFlatFallback(raw, called, ret) ==
    IF ~called THEN raw.MRP
    ELSE IF Falsy(ret) THEN Num(raw.selling_price)
    ELSE ret

\* lines 46-52: the raw MRP, else the PIM answer, else selling_price x 1.5
MrpChoice(raw, called, ret) ==
    IF ~called THEN raw.MRP
    ELSE IF Falsy(ret) THEN Num((raw.selling_price * 3) \div 2)
    ELSE ret

\* ResolveMrp once the PIM has answered (m)
MrpResolved(raw, svc, called, m) ==
    Resolved(MrpChoice(raw, called, IF called THEN m.ret ELSE None), called, m, svc)

\* an MRP resolution that asks the PIM whether or not the record has an MRP
ResolveMrpAlways(raw, svc, tr, pr) ==
    MrpResolved(raw, svc, TRUE, GetProductMrp(svc, raw.product_id, tr, pr))

\* transform_to_falcon_format, MRP resolution: the PIM is called only when the
\* record has no MRP
ResolveMrp(raw, svc, tr, pr) ==
    MrpResolved(raw, svc, Falsy(raw.MRP), GetProductMrp(svc, raw.product_id, tr, pr))

\* a record whose MOP and mop_cost are swapped
BuildFalconSwapped(raw, sku, m) ==
    IF sku.t # "str" \/ m.t # "num" THEN Nothing
    ELSE Just([sku_id |-> sku.s,
               product_id |-> raw.product_id,
               MRP |-> m.n,
               MOP |-> (raw.selling_price * DEFAULT_MOP_MULTIPLIER) \div 1000,
               selling_price |-> raw.selling_price,
               mop_cost |-> raw.selling_price,
               selling_price_cost |-> raw.selling_price,
               coins |-> DEFAULT_COINS])

\* FalconFormattedData(...): pydantic rejects a sku_id that is not a string and
\* an MRP that is not a number; the ValidationError makes the transform return None
BuildFalcon(raw, sku, m) ==
    IF sku.t # "str" \/ m.t # "num" THEN Nothing
    ELSE Just([sku_id |-> sku.s,
               product_id |-> raw.product_id,
               MRP |-> m.n,
               MOP |-> raw.selling_price,
               selling_price |-> raw.selling_price,
               mop_cost |-> (raw.selling_price * DEFAULT_MOP_MULTIPLIER) \div 1000,
               selling_price_cost |-> raw.selling_price,
               coins |-> DEFAULT_COINS])

\* does the transform of raw turn to the PIM at all
Asks(raw) == Falsy(raw.preferred_landing_sku_id) \/ Falsy(raw.MRP)

\* what one call of transform_to_falcon_format did
NoTrace ==
    [done |-> FALSE,
     raw |-> [product_id |-> "", preferred_landing_sku_id |-> None,
              MRP |-> None, selling_price |-> 0],
     before |-> Service(None, None),
     skuCalled |-> FALSE, skuRet |-> None, skuFailure |-> "",
     mrpCalled |-> FALSE, mrpRet |-> None, mrpFailure |-> "",
     auth |-> 0, lookups |-> 0, out |-> Nothing]

\* the record of a call whose SKU step was s
TraceSku(raw, svc, s) ==
    [NoTrace EXCEPT !.raw = raw, !.before = svc,
                    !.skuCalled = s.called, !.skuRet = s.ret, !.skuFailure = s.failure,
                    !.auth = s.auth, !.lookups = s.lookups]

\* ... whose MRP step was m
TraceMrp(trace, m) ==
    [trace EXCEPT !.mrpCalled = m.called, !.mrpRet = m.ret, !.mrpFailure = m.failure,
                  !.auth = @ + m.auth, !.lookups = @ + m.lookups]

\* ... which returned out
TraceOut(trace, out) == [trace EXCEPT !.done = TRUE, !.out = out]

\* the transform after its two resolution steps s and m
Transformed(raw, svc, s, m) ==
    [svc |-> m.svc,
     trace |-> TraceOut(TraceMrp(TraceSku(raw, svc, s), m), BuildFalcon(raw, s.value, m.value))]

\* the transform after its SKU resolution step s
TransformAfterSku(raw, svc, tr, pr, s) ==
    Transformed(raw, svc, s, ResolveMrp(raw, s.svc, tr, pr))

\* the whole transform under one PIM behaviour: token answer tr, product answer pr
TransformToFalconFormat(raw, svc, tr, pr) ==
    TransformAfterSku(raw, svc, tr, pr, ResolveSku(raw, svc, tr, pr))

\* ------------------------------------------------------------- dates
\* a text is a sequence of characters
DigitChars == <<"0", "1", "2", "3", "4", "5", "6", "7", "8", "9">>

IsDigit(c) == \E n \in 1..10 : DigitChars[n] = c

DigitValue(c) == (CHOOSE n \in 1..10 : DigitChars[n] = c) - 1

AllDigits(f) == \A i \in DOMAIN f : IsDigit(f[i])

\* the number a text of digits denotes
RECURSIVE Number(_)
Number(f) ==
    IF f = <<>> THEN 0
    ELSE 10 * Number(SubSeq(f, 1, Len(f) - 1)) + DigitValue(f[Len(f)])

\* the directives of the format: %d is one or two digits or a space and a
\* digit, %m one or two digits, %Y four digits
MatchesDay(f) ==
    \/ Len(f) \in 1..2 /\ AllDigits(f)
    \/ Len(f) = 2 /\ f[1] = " " /\ IsDigit(f[2])

MatchesMonth(f) == Len(f) \in 1..2 /\ AllDigits(f)

MatchesYear(f) == Len(f) = 4 /\ AllDigits(f)

DayValue(f) == IF f[1] = " " THEN DigitValue(f[2]) ELSE Number(f)

IsLeap(y) == y % 4 = 0 /\ (y % 100 # 0 \/ y % 400 = 0)

DaysInMonth(y, m) ==
    IF m = 2 THEN (IF IsLeap(y) THEN 29 ELSE 28)
    ELSE IF m \in {4, 6, 9, 11} THEN 30 ELSE 31

RECURSIVE DaysBeforeMonth(_, _)
DaysBeforeMonth(y, m) ==
    IF m = 1 THEN 0 ELSE DaysBeforeMonth(y, m - 1) + DaysInMonth(y, m - 1)

\* date.toordinal(): days since 31/12/0000
Ordinal(y, m, d) ==
    365 * (y - 1) + ((y - 1) \div 4) - ((y - 1) \div 100) + ((y - 1) \div 400)
    + DaysBeforeMonth(y, m) + d

\* strptime raised ValueError
BadDate == [ok |-> FALSE, ordinal |-> 0]

\* the datetime of day d of month m of year y, if there is such a day
DateOf(d, m, y) ==
    IF y >= 1 /\ m \in 1..12 /\ d >= 1 /\ d <= DaysInMonth(y, m)
    THEN [ok |-> TRUE, ordinal |-> Ordinal(y, m, d)]
    ELSE BadDate

FieldsDate(f1, f2, f3) ==
    IF MatchesDay(f1) /\ MatchesMonth(f2) /\ MatchesYear(f3)
    THEN DateOf(DayValue(f1), Number(f2), Number(f3))
    ELSE BadDate

Slashes(s) == {i \in DOMAIN s : s[i] = "/"}

SplitDate(s, i1, i2) ==
    FieldsDate(SubSeq(s, 1, i1 - 1), SubSeq(s, i1 + 1, i2 - 1), SubSeq(s, i2 + 1, Len(s)))

\* datetime.strptime(s, "%d/%m/%Y"): midnight of the day written in s, or
\* ValueError
Strptime(s) ==
    IF Cardinality(Slashes(s)) = 2
    THEN SplitDate(s, CHOOSE i \in Slashes(s) : \A j \in Slashes(s) : i <= j,
                      CHOOSE i \in Slashes(s) : \A j \in Slashes(s) : j <= i)
    ELSE BadDate

\* a moment: tick k of the day of ordinal o; Midnight(o) is what strptime gives
Moment(o, k) == o * TicksPerDay + k

Midnight(o) == Moment(o, 0)

\* the date texts of the records: four days of June 2025, a day that does
\* not exist, a date in another format, a date written without leading zeros,
\* two days of January 2025
Text0106 == <<"0", "1", "/", "0", "6", "/", "2", "0", "2", "5">>
Text1406 == <<"1", "4", "/", "0", "6", "/", "2", "0", "2", "5">>
Text1506 == <<"1", "5", "/", "0", "6", "/", "2", "0", "2", "5">>
Text3006 == <<"3", "0", "/", "0", "6", "/", "2", "0", "2", "5">>
Text3106 == <<"3", "1", "/", "0", "6", "/", "2", "0", "2", "5">>
TextIso == <<"2", "0", "2", "5", "-", "0", "6", "-", "1", "5">>
TextShort == <<"1", "/", "6", "/", "2", "0", "2", "5">>
Text1901 == <<"1", "9", "/", "0", "1", "/", "2", "0", "2", "5">>
Text2001 == <<"2", "0", "/", "0", "1", "/", "2", "0", "2", "5">>

DateTexts ==
    {<<>>, Text0106, Text1406, Text1506, Text3006, Text3106, TextIso, TextShort,
     Text1901, Text2001}

\* the values of datetime.now(): some moment of 1, 15 or 30 June 2025
Nows == {Moment(Ordinal(2025, 6, d), k) : d \in {1, 15, 30}, k \in 0..(TicksPerDay - 1)}

\* ------------------------------------------------------- AssetService
AssetCodes == {"A1", "A2"}

\* answers of GET /api/rest/v1/asset-families/{family}/assets/{code}
AssetResponses ==
    { [raises |-> TRUE, status_code |-> 0],
      [raises |-> FALSE, status_code |-> 404],
      [raises |-> FALSE, status_code |-> 200] }

\* response.json() of a fetched asset
AssetJson(family, asset_code) == [family |-> family, code |-> asset_code]

\* a product value as the asset fetching sees it: its attribute type, whether
\* its data is a list (data is then the list of asset codes) and its
\* reference_data_name
AssetValues ==
    { [attribute_type |-> ty, is_list |-> TRUE, data |-> codes,
       reference_data_name |-> rdn] :
         ty \in {"pim_catalog_asset_collection", "pim_catalog_multiselect"},
         codes \in SeqsUpTo(AssetCodes, MaxAssets),
         rdn \in {None, Str("gallery")} }
    \cup
    { [attribute_type |-> "pim_catalog_asset_collection", is_list |-> FALSE,
       data |-> <<>>, reference_data_name |-> None] }

NoAssetValue ==
    [attribute_type |-> "", is_list |-> FALSE, data |-> <<>>, reference_data_name |-> None]

\* a loop that gives up at the first asset that cannot be fetched
RECURSIVE FetchAssetsAborting(_, _, _, _, _)
FetchAssetsAborting(asset_codes, family, answers, i, assets) ==
    IF i > Len(asset_codes) THEN assets
    ELSE IF ~answers[i].raises /\ answers[i].status_code = 200
         THEN FetchAssetsAborting(asset_codes, family, answers, i + 1,
                                  Append(assets, AssetJson(family, asset_codes[i])))
         ELSE assets

\* the for loop of get_assets_for_collection from code i on: a 200 appends the
\* asset, another status or an exception is logged and the loop goes on
RECURSIVE FetchAssets(_, _, _, _, _)
FetchAssets(asset_codes, family, answers, i, assets) ==
    IF i > Len(asset_codes) THEN assets
    ELSE FetchAssets(asset_codes, family, answers, i + 1,
                     IF ~answers[i].raises /\ answers[i].status_code = 200
                     THEN Append(assets, AssetJson(family, asset_codes[i]))
                     ELSE assets)

\* get_assets_for_collection: nothing is fetched without token
GetAssetsForCollection(asset_token, asset_codes, family, answers) ==
    IF Falsy(asset_token)
    THEN [assets |-> <<>>, requests |-> 0]
    ELSE [assets |-> FetchAssets(asset_codes, family, answers, 1, <<>>),
          requests |-> Len(asset_codes)]

\* fetch_assets_for_value: value.assets afterwards (Nothing: left at None)
FetchAssetsForValue(value, asset_token, answers) ==
    IF value.attribute_type = "pim_catalog_asset_collection" /\ value.is_list
    THEN Just(GetAssetsForCollection(
                  asset_token, value.data,
                  IF ~Falsy(value.reference_data_name) THEN value.reference_data_name.s
                  ELSE "pdp_scroll",
                  answers).assets)
    ELSE Nothing

\* the answers to the asset requests of one value, one per code
AssetAnswers(value) ==
    {q \in SeqsUpTo(AssetResponses, MaxAssets) : Len(q) = Len(value.data)}

\* ------------------------------------------- direct calls on AkeneoService
\* the products asked for
ProductIds == {"P1"}

\* answers of POST /api/oauth/v1/token with their body (response.text): the
\* request fails, two refusals, two different tokens, a 200 without token
ClientTokenResponses ==
    { [raises |-> TRUE, status_code |-> 0, access_token |-> None, text |-> ""],
      [raises |-> FALSE, status_code |-> 401, access_token |-> None, text |-> "invalid_grant"],
      [raises |-> FALSE, status_code |-> 500, access_token |-> None, text |-> "unavailable"],
      [raises |-> FALSE, status_code |-> 200, access_token |-> Str("T1"), text |-> ""],
      [raises |-> FALSE, status_code |-> 200, access_token |-> Str("T2"), text |-> ""],
      [raises |-> FALSE, status_code |-> 200, access_token |-> None, text |-> ""] }

\* answers of GET /api/rest/v1/products/{id}, also 401 to an expired token
ClientProductResponses ==
    ProductResponses \cup
    { [raises |-> FALSE, status_code |-> 401, wellformed |-> FALSE, values |-> NoValues] }

\* the answers to a lookup sent with the bearer token: the PIM serves no
\* product to a request without one
LookupAnswers(token) ==
    IF Falsy(token)
    THEN {pr \in ClientProductResponses : pr.raises \/ pr.status_code = 401}
    ELSE ClientProductResponses

\* no exception
NoError == [kind |-> "", status_code |-> 0, text |-> ""]

\* the exception _get_access_token raises: the one of requests.post, or
\* Exception(f"Failed to get token: {status_code}, {text}")
TokenError(tr) ==
    IF tr.raises THEN [kind |-> "request", status_code |-> 0, text |-> ""]
    ELSE [kind |-> "status", status_code |-> tr.status_code, text |-> tr.text]

\* what the _get_access_token calls made so far on a client did: one of them
\* returned normally; the latest one was refused (non-success status)
NoHistory == [returned |-> FALSE, refused |-> FALSE]

HistoryAfter(hist, a, tr) ==
    [returned |-> hist.returned \/ ~a.raised,
     refused |-> a.raised /\ a.auth = 1 /\ ~tr.raises /\ tr.status_code # 200]

\* the outcome of a client method: raised or returned ret (a python value) or
\* product (the values of a ProductDetails)
Outcome(raised, ret, product, failure, lookups) ==
    [raised |-> raised, ret |-> ret, product |-> product,
     failure |-> failure, lookups |-> lookups]

\* what get_product gives back after g
ProductOutcome(g) ==
    Outcome(g.raised, None, IF g.raised THEN Nothing ELSE Just(g.values),
            g.failure, g.lookups)

\* what get_product_sku_mapping and get_product_mrp give back after m
LookupOutcome(m) == Outcome(FALSE, m.ret, Nothing, m.failure, m.lookups)

\* what _get_access_token gives back after a
TokenOutcome(a) ==
    Outcome(a.raised, a.ret, Nothing, IF a.raised THEN "auth" ELSE "", 0)

\* no call made
NoCall ==
    [op |-> "", product_id |-> "", before |-> Service(None, None), history |-> NoHistory,
     tr |-> Unasked, pr |-> Unasked,
     token_raised |-> FALSE, token |-> None, auth |-> 0, error |-> NoError,
     raised |-> FALSE, ret |-> None, product |-> Nothing, failure |-> "", lookups |-> 0,
     value |-> NoAssetValue, answers |-> <<>>, assets |-> Nothing]

\* the record of the call op(product_id) made on the client svc: a is what its
\* _get_access_token did with the token answer tr, out what the method did
\* with the product answer pr
CallMade(op, product_id, svc, hist, tr, pr, a, out) ==
    [op |-> op, product_id |-> product_id, before |-> svc, history |-> hist,
     tr |-> IF a.auth = 1 THEN tr ELSE Unasked,
     pr |-> IF out.lookups = 1 THEN pr ELSE Unasked,
     token_raised |-> a.raised, token |-> a.ret, auth |-> a.auth,
     error |-> IF a.raised THEN TokenError(tr) ELSE NoError,
     raised |-> out.raised, ret |-> out.ret, product |-> out.product,
     failure |-> out.failure, lookups |-> out.lookups,
     value |-> NoAssetValue, answers |-> <<>>, assets |-> Nothing]

\* ... of a get_product whose product has the value `value` under "images",
\* the asset requests being answered by answers
WithAssets(made, value, answers, asset_token) ==
    IF made.raised THEN made
    ELSE [made EXCEPT !.value = value, !.answers = answers,
                      !.assets = FetchAssetsForValue(value, asset_token, answers)]

\* ------------------------------------- concurrent calls of get_product
Threads == 1..NumThreads

\* a get_product call: where it is (idle, check, post, wait, load, set, ret,
\* lookup, done, failed), the token it got, whether it found no token at line
\* 79, whether it sent a token request at line 94, and the argument it
\* evaluated for set_access_token at line 103
NoThread ==
    [pc |-> "idle", token |-> None, saw_none |-> FALSE, issued |-> FALSE, arg |-> None]

NoThreads == [t \in Threads |-> NoThread]

\* the call goes to position p
At(thread, p) == [thread EXCEPT !.pc = p]


\* ----------------------------------------- the validator and the filter
\* RawCampaignData, the fields the validator and the filter read
Dated(product_id, selling_price, live_date, end_date) ==
    [product_id |-> product_id, selling_price |-> selling_price,
     live_date |-> live_date, end_date |-> end_date]

NoRecord == Dated("", 0, <<>>, <<>>)

\* the records handed to validate_campaign_data
ValidateRecords ==
    [product_id : {"", "P1"}, selling_price : {-5000, 0, 100000},
     live_date : DateTexts, end_date : DateTexts]

\* the records handed to filter_active_campaigns
FilterRecords ==
    { Dated("P1", 100000, Text0106, Text3006),
      Dated("P2", 100000, Text0106, Text1406),
      Dated("P3", 100000, Text0106, Text1506),
      Dated("P4", 100000, Text1506, Text3006),
      Dated("P5", 100000, TextShort, Text3006),
      Dated("P6", 100000, <<>>, Text3006),
      Dated("P7", 100000, Text0106, TextIso),
      Dated("P8", 100000, Text0106, Text3106) }

\* line 197: live_date <= current_date <= end_date, the dates at midnight
InWindow(live, now, end) ==
    Midnight(live.ordinal) <= now /\ now <= Midnight(end.ordinal)

\* the body of the loop: is the campaign appended (a ValueError of strptime
\* is caught and the loop continues)
Keeps(live, end, now) == live.ok /\ end.ok /\ InWindow(live, now, end)

\* a loop that ends at the first record whose dates do not parse
RECURSIVE FilterFromAborting(_, _, _, _)
FilterFromAborting(campaigns, now, i, active) ==
    IF i > Len(campaigns) THEN active
    ELSE IF ~Strptime(campaigns[i].live_date).ok \/ ~Strptime(campaigns[i].end_date).ok
         THEN active
         ELSE FilterFromAborting(
                  campaigns, now, i + 1,
                  IF Keeps(Strptime(campaigns[i].live_date),
                           Strptime(campaigns[i].end_date), now)
                  THEN Append(active, campaigns[i])
                  ELSE active)

\* the for loop of filter_active_campaigns from record i on
RECURSIVE FilterFrom(_, _, _, _)
FilterFrom(campaigns, now, i, active) ==
    IF i > Len(campaigns) THEN active
    ELSE FilterFrom(campaigns, now, i + 1,
                    IF Keeps(Strptime(campaigns[i].live_date),
                             Strptime(campaigns[i].end_date), now)
                    THEN Append(active, campaigns[i])
                    ELSE active)

FilterActiveCampaigns(campaigns, now) == FilterFrom(campaigns, now, 1, <<>>)

ErrorIf(cond, message) == IF cond THEN <<message>> ELSE <<>>

\* a date block that reports the format error once for each date that does
\* not parse, and goes on to compare the days written
DateErrorsPerDate(live, end) ==
    ErrorIf(~live.ok, "Invalid date format. Expected DD/MM/YYYY")
    \o ErrorIf(~end.ok, "Invalid date format. Expected DD/MM/YYYY")
    \o ErrorIf(end.ordinal <= live.ordinal, "End date must be after live date")

\* a date block that accepts a campaign that ends on the day it starts
DateErrorsSameDayAllowed(live, end) ==
    IF ~live.ok \/ ~end.ok THEN <<"Invalid date format. Expected DD/MM/YYYY">>
    ELSE ErrorIf(end.ordinal < live.ordinal, "End date must be after live date")

\* lines 167-175: the format error when a date does not parse, else the
\* ordering error when the end is not after the start
DateErrors(live, end) ==
    IF ~live.ok \/ ~end.ok THEN <<"Invalid date format. Expected DD/MM/YYYY">>
    ELSE ErrorIf(end.ordinal <= live.ordinal, "End date must be after live date")

\* a validator that stops at the first rule that is violated
ValidateCampaignDataFirstOnly(raw) ==
    IF raw.product_id = "" THEN <<"Product ID is required">>
    ELSE IF raw.selling_price <= 0 THEN <<"Valid selling price is required">>
    ELSE IF raw.live_date = <<>> THEN <<"Live date is required">>
    ELSE IF raw.end_date = <<>> THEN <<"End date is required">>
    ELSE DateErrors(Strptime(raw.live_date), Strptime(raw.end_date))

\* validate_campaign_data: the list of errors
ValidateCampaignData(raw) ==
    ErrorIf(raw.product_id = "", "Product ID is required")
    \o ErrorIf(raw.selling_price = 0 \/ raw.selling_price <= 0,
               "Valid selling price is required")
    \o ErrorIf(raw.live_date = <<>>, "Live date is required")
    \o ErrorIf(raw.end_date = <<>>, "End date is required")
    \o DateErrors(Strptime(raw.live_date), Strptime(raw.end_date))

\* ------------------------------------------------------ the summary
\* sum(q)
RECURSIVE SumSeq(_)
SumSeq(q) == IF q = <<>> THEN 0 ELSE Head(q) + SumSeq(Tail(q))

RECURSIVE Gcd(_, _)
Gcd(a, b) == IF b = 0 THEN a ELSE Gcd(b, a % b)

\* a / n, the true division of python, kept exact: a fraction in lowest terms
Divide(a, n) == [num |-> a \div Gcd(a, n), den |-> n \div Gcd(a, n)]

\* the ProcessedCampaignData handed to get_campaign_summary, the fields it reads
Processed(issue_type, selling_price, MRP) ==
    [raw_data |-> [issue_type |-> issue_type],
     falcon_data |-> [selling_price |-> selling_price, MRP |-> MRP]]

SummaryCampaigns ==
    { Processed("DOD", 100000, 300000),
      Processed("DOD", 33333, 75000),
      Processed("FLASH_SALE", 100000, 150000),
      Processed("FLASH_SALE", 50000, 75000),
      Processed("", 50000, 60000) }

\* a summary whose per-type counts only tell that the type is there
SummarizeCountingOnce(selling_prices, mrps, campaign_types) ==
    [total_campaigns |-> Len(campaign_types),
     campaign_types |-> {campaign_types[i] : i \in DOMAIN campaign_types},
     avg_selling_price |-> Divide(SumSeq(selling_prices), Len(selling_prices)),
     min_selling_price |->
         CHOOSE x \in {selling_prices[i] : i \in DOMAIN selling_prices} :
             \A i \in DOMAIN selling_prices : x <= selling_prices[i],
     max_selling_price |->
         CHOOSE x \in {selling_prices[i] : i \in DOMAIN selling_prices} :
             \A i \in DOMAIN selling_prices : x >= selling_prices[i],
     avg_mrp |-> Divide(SumSeq(mrps), Len(mrps)),
     total_potential_revenue |-> SumSeq(selling_prices),
     campaign_type_counts |->
         [camp_type \in {campaign_types[i] : i \in DOMAIN campaign_types} |-> 1]]

\* lines 224-236: the summary of a non-empty list, from the three lists
\* extracted at lines 220-222; list(set(...)) is kept as a set
Summarize(selling_prices, mrps, campaign_types) ==
    [total_campaigns |-> Len(campaign_types),
     campaign_types |-> {campaign_types[i] : i \in DOMAIN campaign_types},
     avg_selling_price |-> Divide(SumSeq(selling_prices), Len(selling_prices)),
     min_selling_price |->
         CHOOSE x \in {selling_prices[i] : i \in DOMAIN selling_prices} :
             \A i \in DOMAIN selling_prices : x <= selling_prices[i],
     max_selling_price |->
         CHOOSE x \in {selling_prices[i] : i \in DOMAIN selling_prices} :
             \A i \in DOMAIN selling_prices : x >= selling_prices[i],
     avg_mrp |-> Divide(SumSeq(mrps), Len(mrps)),
     total_potential_revenue |-> SumSeq(selling_prices),
     campaign_type_counts |->
         [camp_type \in {campaign_types[i] : i \in DOMAIN campaign_types} |->
             Cardinality({i \in DOMAIN campaign_types : campaign_types[i] = camp_type})]]

\* a summary that zeroes its fields on an empty list
GetCampaignSummaryZeroed(campaigns) ==
    IF campaigns = <<>>
    THEN [total_campaigns |-> 0, campaign_types |-> {},
          avg_selling_price |-> Divide(0, 1), min_selling_price |-> 0,
          max_selling_price |-> 0, avg_mrp |-> Divide(0, 1),
          total_potential_revenue |-> 0, campaign_type_counts |-> <<>>]
    ELSE Summarize([i \in DOMAIN campaigns |-> campaigns[i].falcon_data.selling_price],
                   [i \in DOMAIN campaigns |-> campaigns[i].falcon_data.MRP],
                   [i \in DOMAIN campaigns |-> campaigns[i].raw_data.issue_type])

\* get_campaign_summary: the mapping it returns
GetCampaignSummary(campaigns) ==
    IF campaigns = <<>>
    THEN [total_campaigns |-> 0]
    ELSE Summarize([i \in DOMAIN campaigns |-> campaigns[i].falcon_data.selling_price],
                   [i \in DOMAIN campaigns |-> campaigns[i].falcon_data.MRP],
                   [i \in DOMAIN campaigns |-> campaigns[i].raw_data.issue_type])

\* ------------------------------------------------ storage and routes
\* a row of the campaigns table, the columns the services read; a date
\* column is Nothing (NULL) or Just(text)
Row(issue_type, live_date, end_date, product_id, selling_price, preferred_landing_sku_id, MRP, slot) ==
    [issue_type |-> issue_type, live_date |-> live_date, end_date |-> end_date,
     product_id |-> product_id, selling_price |-> selling_price,
     preferred_landing_sku_id |-> preferred_landing_sku_id, MRP |-> MRP, slot |-> slot]

\* the rows a query returns: a complete row, one without SKU and MRP, one
\* whose columns are all NULL, one whose slot is not a number, one that ends
\* before it starts and has no MRP
StoredRows ==
    { Row(Str("DOD"), Just(Text0106), Just(Text3006), Str("P1"), Num(100000),
          Str("K1"), Num(300000), Num(1)),
      Row(Str("FLASH_SALE"), Just(Text0106), Just(Text1506), Str("P1"), Num(100000),
          None, None, None),
      Row(None, Nothing, Nothing, None, None, None, None, None),
      Row(Str("DOD"), Just(Text0106), Just(Text3006), Str("P1"), Num(100000),
          Str("K1"), Num(300000), Str("x")),
      Row(Str("SPIN_WHEEL"), Just(Text3006), Just(Text0106), Str("P1"), Num(50000),
          Str("K1"), Num(0), None) }

\* RawCampaignData(...) of database_service.py:122-155: `or ""` on the
\* required texts, float() or 0.0 / None on the amounts; pydantic rejects a
\* slot that is not an integer (Nothing: ValidationError)
RowToRecord(row) ==
    IF row.slot.t = "str" THEN Nothing
    ELSE Just([issue_type |-> IF Falsy(row.issue_type) THEN "" ELSE row.issue_type.s,
               live_date |-> IF row.live_date = Nothing THEN <<>> ELSE row.live_date[1],
               end_date |-> IF row.end_date = Nothing THEN <<>> ELSE row.end_date[1],
               product_id |-> IF Falsy(row.product_id) THEN "" ELSE row.product_id.s,
               selling_price |->
                   IF Falsy(row.selling_price) THEN 0 ELSE row.selling_price.n,
               preferred_landing_sku_id |-> row.preferred_landing_sku_id,
               MRP |-> IF Falsy(row.MRP) THEN None ELSE row.MRP])

\* DatabaseService.get_campaigns, the loop over the rows from row i on: a row
\* that cannot be converted is logged and skipped
RECURSIVE ConvertRows(_, _, _)
ConvertRows(rows, i, campaigns) ==
    IF i > Len(rows) THEN campaigns
    ELSE ConvertRows(rows, i + 1, campaigns \o RowToRecord(rows[i]))

\* how the PIM answers while one record is transformed: token answer and
\* product answer (a product with sku and mrp, one whose sku is a JSON
\* array, a server error, a refused authentication)
PimAnswer(tr, pr) == [tr |-> tr, pr |-> pr]

EndpointAnswers ==
    { PimAnswer([raises |-> FALSE, status_code |-> 200, access_token |-> Str("T1")],
                [raises |-> FALSE, status_code |-> 200, wellformed |-> TRUE,
                 values |-> [c \in {"sku", "mrp"} |->
                               IF c = "sku" THEN <<Str("S1")>> ELSE <<Num(250000)>>]]),
      PimAnswer([raises |-> FALSE, status_code |-> 200, access_token |-> Str("T1")],
                [raises |-> FALSE, status_code |-> 200, wellformed |-> TRUE,
                 values |-> [c \in {"sku"} |-> <<List(1)>>]]),
      PimAnswer([raises |-> FALSE, status_code |-> 200, access_token |-> Str("T1")],
                [raises |-> FALSE, status_code |-> 500, wellformed |-> FALSE,
                 values |-> NoValues]),
      PimAnswer([raises |-> FALSE, status_code |-> 401, access_token |-> None],
                [raises |-> FALSE, status_code |-> 500, wellformed |-> FALSE,
                 values |-> NoValues]) }

\* one PIM behaviour for each record of raws
AnswersFor(raws) == {q \in SeqsUpTo(EndpointAnswers, MaxBatch) : Len(q) = Len(raws)}

\* CampaignResponse(...)
MakeResponse(raws, campaigns, failed) ==
    [total_count |-> Len(raws),
     processed_count |-> Len(campaigns),
     failed_count |-> failed,
     campaigns |-> campaigns]

\* process_campaign_data as one call, from record i on: the response, the
\* client afterwards and the number of requests sent to the PIM
RECURSIVE ProcessFrom(_, _, _, _, _, _, _)
RECURSIVE ProcessRecord(_, _, _, _, _, _, _)
ProcessFrom(raws, answers, i, svc, campaigns, failed, pim) ==
    IF i > Len(raws)
    THEN [response |-> MakeResponse(raws, campaigns, failed), svc |-> svc, pim |-> pim]
    ELSE ProcessRecord(raws, answers, i, campaigns, failed, pim,
                       TransformToFalconFormat(raws[i], svc, answers[i].tr, answers[i].pr))

\* ... the loop body once transform_to_falcon_format has returned (t)
ProcessRecord(raws, answers, i, campaigns, failed, pim, t) ==
    ProcessFrom(raws, answers, i + 1, t.svc,
                IF t.trace.out # Nothing
                THEN Append(campaigns, [raw_data |-> raws[i], falcon_data |-> t.trace.out[1]])
                ELSE campaigns,
                IF t.trace.out # Nothing THEN failed ELSE failed + 1,
                pim + t.trace.auth + t.trace.lookups)

\* a validation loop that adds one entry for each error of a record
RECURSIVE ValidateFromPerError(_, _, _, _, _)
ValidateFromPerError(raws, i, valid_count, invalid_count, all_errors) ==
    IF i > Len(raws)
    THEN [total_campaigns |-> Len(raws), valid_campaigns |-> valid_count,
          invalid_campaigns |-> invalid_count, validation_errors |-> all_errors]
    ELSE IF ValidateCampaignData(raws[i]) # <<>>
         THEN ValidateFromPerError(
                  raws, i + 1, valid_count, invalid_count + 1,
                  all_errors \o [k \in DOMAIN ValidateCampaignData(raws[i]) |->
                                    [product_id |-> raws[i].product_id,
                                     errors |-> <<ValidateCampaignData(raws[i])[k]>>]])
         ELSE ValidateFromPerError(raws, i + 1, valid_count + 1, invalid_count, all_errors)

\* the validation route, the loop of lines 317-328 from record i on, and the
\* body it returns
RECURSIVE ValidateFrom(_, _, _, _, _)
ValidateFrom(raws, i, valid_count, invalid_count, all_errors) ==
    IF i > Len(raws)
    THEN [total_campaigns |-> Len(raws), valid_campaigns |-> valid_count,
          invalid_campaigns |-> invalid_count, validation_errors |-> all_errors]
    ELSE IF ValidateCampaignData(raws[i]) # <<>>
         THEN ValidateFrom(raws, i + 1, valid_count, invalid_count + 1,
                           Append(all_errors,
                                  [product_id |-> raws[i].product_id,
                                   errors |-> ValidateCampaignData(raws[i])]))
         ELSE ValidateFrom(raws, i + 1, valid_count + 1, invalid_count, all_errors)

\* what a route handler did with a request: whether storage gave its
\* records, the records, the ones handed to transform_to_falcon_format, the
\* status and the kind of the answer, the CampaignResponse whose counts the
\* answer carries (Nothing: none), the requests sent to the PIM, the client
\* before the request, the body of the validation route
Answer(endpoint, obtained, raws, reached, status_code, body, stats, pim, svc) ==
    [endpoint |-> endpoint, obtained |-> obtained, raw_campaigns |-> raws,
     reached |-> reached, status_code |-> status_code, body |-> body,
     stats |-> stats, pim |-> pim, before |-> svc, validation |-> Nothing]

NoRequest == Answer("", FALSE, <<>>, <<>>, 0, "", Nothing, 0, Service(None, None))

\* ------------------------------------------------------------- the state
VARIABLES
    access_token,         \* AkeneoService._access_token
    asset_token,          \* AssetService._access_token
    pc,                   \* where the caller is: idle, loop, mrp, build, done, direct
    raw_campaigns,        \* process_campaign_data: its argument
    idx,                  \* ... the position of the for loop (1-based)
    processed_campaigns,  \* ... the list of ProcessedCampaignData
    failed_count,         \* ... the failure counter
    response,             \* ... the CampaignResponse returned (<<>> before that)
    sku_id,               \* transform_to_falcon_format: local sku_id
    mrp,                  \* ... local mrp
    last,                 \* record of the transform call in progress or last made
    again,                \* record of the same call repeated right after it
    results,              \* what transform returned for each record of the batch
    call,                 \* record of the AkeneoService method call just made
    token_history,        \* what the _get_access_token calls of this client did so far
    threads,              \* concurrent get_product calls: position and locals of each
    auth_requests,        \* token requests sent by the concurrent calls
    current_date,         \* filter_active_campaigns: datetime.now()
    filter_campaigns,     \* ... its argument campaigns
    active_campaigns,     \* ... the list it returns (<<>> before that)
    raw_data,             \* validate_campaign_data: its argument
    errors,               \* ... the list it returns
    summary_campaigns,    \* get_campaign_summary: its argument
    summary,              \* ... the mapping it returns
    request               \* record of the HTTP request a route handler just answered

\* the state of the direct calls on the PIM client
clientVars == <<call, token_history>>

\* the state of the concurrent get_product calls
raceVars == <<threads, auth_requests>>

\* the state of the filter and of the validator
recordVars == <<current_date, filter_campaigns, active_campaigns, raw_data, errors,
                summary_campaigns, summary>>

\* the state of the route handlers
endpointVars == <<request>>

\* the locals of the transform and of the batch loop
pipelineVars == <<raw_campaigns, idx, processed_campaigns, failed_count, response,
                  sku_id, mrp, last, again, results>>

vars == <<access_token, asset_token, pc, raw_campaigns, idx, processed_campaigns,
          failed_count, response, sku_id, mrp, last, again, results,
          clientVars, raceVars, recordVars, endpointVars>>

batchVars == <<raw_campaigns, idx, processed_campaigns, failed_count, response, results>>

\* CampaignService() / AkeneoService() / AssetService() just constructed
Init ==
    /\ access_token = None
    /\ asset_token = None
    /\ pc = "idle"
    /\ raw_campaigns = <<>>
    /\ idx = 1
    /\ processed_campaigns = <<>>
    /\ failed_count = 0
    /\ response = Nothing
    /\ sku_id = None
    /\ mrp = None
    /\ last = NoTrace
    /\ again = NoTrace
    /\ results = <<>>
    /\ call = NoCall
    /\ token_history = NoHistory
    /\ threads = NoThreads
    /\ auth_requests = 0
    /\ current_date = 0
    /\ filter_campaigns = <<>>
    /\ active_campaigns = <<>>
    /\ raw_data = NoRecord
    /\ errors = <<>>
    /\ summary_campaigns = <<>>
    /\ summary = [total_campaigns |-> 0]
    /\ request = NoRequest

\* process_campaign_data(raws) is entered
ProcessStart ==
    /\ pc = "idle"
    /\ \E raws \in SeqsUpTo(BatchRecords, MaxBatch) : raw_campaigns' = raws
    /\ idx' = 1
    /\ processed_campaigns' = <<>>
    /\ failed_count' = 0
    /\ response' = Nothing
    /\ results' = <<>>
    /\ pc' = "loop"
    /\ sku_id' = None /\ mrp' = None
    /\ last' = NoTrace /\ again' = NoTrace
    /\ UNCHANGED <<access_token, asset_token>>
    /\ UNCHANGED <<clientVars, raceVars, recordVars, endpointVars>>

\* the answers the PIM can give to a step: none when the step does not call it,
\* no token answer when a token is cached
TokenAnswers(asked) == IF asked THEN TokenResponses ELSE {Unasked}

ProductAnswers(asked, R) == IF asked THEN R ELSE {Unasked}

\* next record of the loop: transform is called and resolves the SKU
ProcessSku ==
    /\ pc = "loop"
    /\ idx <= Len(raw_campaigns)
    /\ \E raw \in {raw_campaigns[idx]}, svc \in {Service(access_token, asset_token)} :
       \E tr \in TokenAnswers(Falsy(raw.preferred_landing_sku_id) /\ Falsy(access_token)),
          pr \in ProductAnswers(Falsy(raw.preferred_landing_sku_id), BatchProductResponses) :
       \E s \in {ResolveSku(raw, svc, tr, pr)} :
            /\ sku_id' = s.value
            /\ access_token' = s.svc.access_token
            /\ asset_token' = s.svc.asset_token
            /\ last' = TraceSku(raw, svc, s)
    /\ pc' = "mrp"
    /\ mrp' = None
    /\ UNCHANGED <<again, batchVars>>
    /\ UNCHANGED <<clientVars, raceVars, recordVars, endpointVars>>

\* ... resolves the MRP
ProcessMrp ==
    /\ pc = "mrp"
    /\ \E raw \in {raw_campaigns[idx]}, svc \in {Service(access_token, asset_token)} :
       \E tr \in TokenAnswers(Falsy(raw.MRP) /\ Falsy(access_token)),
          pr \in ProductAnswers(Falsy(raw.MRP), BatchProductResponses) :
       \E m \in {ResolveMrp(raw, svc, tr, pr)} :
            /\ mrp' = m.value
            /\ access_token' = m.svc.access_token
            /\ asset_token' = m.svc.asset_token
            /\ last' = TraceMrp(last, m)
    /\ pc' = "build"
    /\ UNCHANGED <<sku_id, again, batchVars>>
    /\ UNCHANGED <<clientVars, raceVars, recordVars, endpointVars>>

\* a loop body that puts the new pair in front
CollectInFront(campaigns, raw, falcon_data) ==
    IF falcon_data # Nothing
    THEN <<[raw_data |-> raw, falcon_data |-> falcon_data[1]]>> \o campaigns
    ELSE campaigns

\* the loop body after transform returned: append the pair or count the failure
Collect(campaigns, raw, falcon_data) ==
    IF falcon_data # Nothing
    THEN Append(campaigns, [raw_data |-> raw, falcon_data |-> falcon_data[1]])
    ELSE campaigns

\* a loop body that forgets to count a None result
CountFailureDropped(count, falcon_data) == count

CountFailure(count, falcon_data) ==
    IF falcon_data # Nothing THEN count ELSE count + 1

\* a loop that gives up at the first record that fails
ProcessBuildAborting ==
    /\ pc = "build"
    /\ \E raw \in {raw_campaigns[idx]} :
       \E falcon_data \in {BuildFalcon(raw, sku_id, mrp)} :
          /\ processed_campaigns' = Collect(processed_campaigns, raw, falcon_data)
          /\ failed_count' = CountFailure(failed_count, falcon_data)
          /\ results' = Append(results, falcon_data)
          /\ last' = TraceOut(last, falcon_data)
          /\ idx' = IF falcon_data = Nothing THEN Len(raw_campaigns) + 1 ELSE idx + 1
    /\ pc' = "loop"
    /\ sku_id' = None /\ mrp' = None
    /\ UNCHANGED <<access_token, asset_token, raw_campaigns, response, again>>
    /\ UNCHANGED <<clientVars, raceVars, recordVars, endpointVars>>

\* ... builds the FalconFormattedData, returns, and the loop body finishes
ProcessBuild ==
    /\ pc = "build"
    /\ \E raw \in {raw_campaigns[idx]} :
       \E falcon_data \in {BuildFalcon(raw, sku_id, mrp)} :
          /\ processed_campaigns' = Collect(processed_campaigns, raw, falcon_data)
          /\ failed_count' = CountFailure(failed_count, falcon_data)
          /\ results' = Append(results, falcon_data)
          /\ last' = TraceOut(last, falcon_data)
    /\ idx' = idx + 1
    /\ pc' = "loop"
    /\ sku_id' = None /\ mrp' = None
    /\ UNCHANGED <<access_token, asset_token, raw_campaigns, response, again>>
    /\ UNCHANGED <<clientVars, raceVars, recordVars, endpointVars>>

\* the loop is over: process_campaign_data returns its CampaignResponse
ProcessReturn ==
    /\ pc = "loop"
    /\ idx > Len(raw_campaigns)
    /\ response' = Just(MakeResponse(raw_campaigns, processed_campaigns, failed_count))
    /\ pc' = "done"
    /\ UNCHANGED <<access_token, asset_token, raw_campaigns, idx, processed_campaigns,
                   failed_count, results, sku_id, mrp, last, again>>
    /\ UNCHANGED <<clientVars, raceVars, recordVars, endpointVars>>

\* transform_to_falcon_format(raw) called twice in a row while the PIM answers
\* the same way (token answer tr, product answer pr)
TransformTwice ==
    /\ pc = "idle"
    /\ last = NoTrace
    /\ \E raw \in RawRecords :
       \E tr \in TokenAnswers(Asks(raw) /\ Falsy(access_token)),
          pr \in ProductAnswers(Asks(raw), ProductResponses) :
       \E first \in {TransformToFalconFormat(raw, Service(access_token, asset_token), tr, pr)} :
       \E second \in {TransformToFalconFormat(raw, first.svc, tr, pr)} :
            /\ last' = first.trace
            /\ again' = second.trace
            /\ access_token' = second.svc.access_token
            /\ asset_token' = second.svc.asset_token
    /\ pc' = "direct"
    /\ UNCHANGED <<sku_id, mrp, batchVars>>
    /\ UNCHANGED <<clientVars, raceVars, recordVars, endpointVars>>

\* the caller is done with the result; the service objects live on
Reset ==
    /\ pc \in {"done", "direct"}
    /\ pc' = "idle"
    /\ raw_campaigns' = <<>>
    /\ idx' = 1
    /\ processed_campaigns' = <<>>
    /\ failed_count' = 0
    /\ response' = Nothing
    /\ results' = <<>>
    /\ sku_id' = None /\ mrp' = None
    /\ last' = NoTrace /\ again' = NoTrace
    /\ UNCHANGED <<access_token, asset_token>>
    /\ UNCHANGED <<clientVars, raceVars, recordVars, endpointVars>>

Next ==
    \/ ProcessStart
    \/ ProcessSku
    \/ ProcessMrp
    \/ ProcessBuild
    \/ ProcessReturn
    \/ TransformTwice
    \/ Reset

Spec == Init /\ [][Next]_vars

\* ------------------------------------------- actions of the direct calls
\* _get_access_token() is called on the client
CallGetAccessToken ==
    /\ pc = "idle"
    /\ \E svc \in {Service(access_token, asset_token)} :
       \E tr \in ProductAnswers(Falsy(access_token), ClientTokenResponses) :
       \E a \in {GetAccessToken(svc, tr)} :
          /\ call' = CallMade("_get_access_token", "", svc, token_history, tr, Unasked,
                              a, TokenOutcome(a))
          /\ access_token' = a.svc.access_token
          /\ asset_token' = a.svc.asset_token
          /\ token_history' = HistoryAfter(token_history, a, tr)
    /\ pc' = "called"
    /\ UNCHANGED <<pipelineVars, raceVars, recordVars, endpointVars>>

\* get_product(product_id) is called on the client
CallGetProduct ==
    /\ pc = "idle"
    /\ \E svc \in {Service(access_token, asset_token)}, product_id \in ProductIds :
       \E tr \in ProductAnswers(Falsy(access_token), ClientTokenResponses) :
       \E a \in {GetAccessToken(svc, tr)} :
       \E pr \in LookupAnswers(a.ret) :
       \E g \in {GetProduct(svc, product_id, tr, pr)} :
          /\ call' = CallMade("get_product", product_id, svc, token_history, tr, pr,
                              a, ProductOutcome(g))
          /\ access_token' = g.svc.access_token
          /\ asset_token' = g.svc.asset_token
          /\ token_history' = HistoryAfter(token_history, a, tr)
    /\ pc' = "called"
    /\ UNCHANGED <<pipelineVars, raceVars, recordVars, endpointVars>>

\* get_product(product_id) is called for a product with one value, which may
\* be an asset collection
CallGetProductWithAssets ==
    /\ pc = "idle"
    /\ \E svc \in {Service(access_token, asset_token)}, product_id \in ProductIds :
       \E tr \in ProductAnswers(Falsy(access_token), ClientTokenResponses) :
       \E a \in {GetAccessToken(svc, tr)} :
       \E pr \in {r \in LookupAnswers(a.ret) : r.values = NoValues} :
       \E g \in {GetProduct(svc, product_id, tr, pr)} :
       \E value \in AssetValues :
       \E answers \in AssetAnswers(value) :
          /\ call' = WithAssets(CallMade("get_product", product_id, svc, token_history,
                                         tr, pr, a, ProductOutcome(g)),
                                value, answers, g.svc.asset_token)
          /\ access_token' = g.svc.access_token
          /\ asset_token' = g.svc.asset_token
          /\ token_history' = HistoryAfter(token_history, a, tr)
    /\ pc' = "called"
    /\ UNCHANGED <<pipelineVars, raceVars, recordVars, endpointVars>>

\* get_product_sku_mapping(product_id) is called on the client
CallGetProductSkuMapping ==
    /\ pc = "idle"
    /\ \E svc \in {Service(access_token, asset_token)}, product_id \in ProductIds :
       \E tr \in ProductAnswers(Falsy(access_token), ClientTokenResponses) :
       \E a \in {GetAccessToken(svc, tr)} :
       \E pr \in LookupAnswers(a.ret) :
       \E m \in {GetProductSkuMapping(svc, product_id, tr, pr)} :
          /\ call' = CallMade("get_product_sku_mapping", product_id, svc, token_history,
                              tr, pr, a, LookupOutcome(m))
          /\ access_token' = m.svc.access_token
          /\ asset_token' = m.svc.asset_token
          /\ token_history' = HistoryAfter(token_history, a, tr)
    /\ pc' = "called"
    /\ UNCHANGED <<pipelineVars, raceVars, recordVars, endpointVars>>

\* get_product_mrp(product_id) is called on the client
CallGetProductMrp ==
    /\ pc = "idle"
    /\ \E svc \in {Service(access_token, asset_token)}, product_id \in ProductIds :
       \E tr \in ProductAnswers(Falsy(access_token), ClientTokenResponses) :
       \E a \in {GetAccessToken(svc, tr)} :
       \E pr \in LookupAnswers(a.ret) :
       \E m \in {GetProductMrp(svc, product_id, tr, pr)} :
          /\ call' = CallMade("get_product_mrp", product_id, svc, token_history,
                              tr, pr, a, LookupOutcome(m))
          /\ access_token' = m.svc.access_token
          /\ asset_token' = m.svc.asset_token
          /\ token_history' = HistoryAfter(token_history, a, tr)
    /\ pc' = "called"
    /\ UNCHANGED <<pipelineVars, raceVars, recordVars, endpointVars>>

\* the caller has its answer; the client lives on
ClientReturn ==
    /\ pc = "called"
    /\ pc' = "idle"
    /\ call' = NoCall
    /\ UNCHANGED <<access_token, asset_token, token_history,
                   pipelineVars, raceVars, recordVars, endpointVars>>

ClientNext ==
    \/ CallGetAccessToken
    \/ CallGetProduct
    \/ CallGetProductWithAssets
    \/ CallGetProductSkuMapping
    \/ CallGetProductMrp
    \/ ClientReturn

\* calls made one after the other on one AkeneoService
ClientSpec == Init /\ [][ClientNext]_vars

\* ------------------------------ actions of the concurrent get_product calls
\* get_product(product_id) is called: its first statement calls _get_access_token
EnterGetProduct(t) ==
    /\ threads[t].pc = "idle"
    /\ threads' = [threads EXCEPT ![t] = At(@, "check")]
    /\ UNCHANGED <<access_token, asset_token, auth_requests, pc, call, token_history,
                   pipelineVars, recordVars, endpointVars>>

\* line 79: the cached token is returned, if there is one
CheckToken(t) ==
    /\ threads[t].pc = "check"
    /\ threads' = [threads EXCEPT ![t] =
                      IF ~Falsy(access_token)
                      THEN [At(@, "lookup") EXCEPT !.token = access_token]
                      ELSE [At(@, "post") EXCEPT !.saw_none = TRUE]]
    /\ UNCHANGED <<access_token, asset_token, auth_requests, pc, call, token_history,
                   pipelineVars, recordVars, endpointVars>>

\* a token request that is sent only if there is still no token cached
PostTokenRequestRechecked(t) ==
    /\ threads[t].pc = "post"
    /\ IF ~Falsy(access_token)
       THEN /\ threads' = [threads EXCEPT ![t] =
                              [At(@, "lookup") EXCEPT !.token = access_token]]
            /\ UNCHANGED auth_requests
       ELSE /\ threads' = [threads EXCEPT ![t] = [At(@, "wait") EXCEPT !.issued = TRUE]]
            /\ auth_requests' = auth_requests + 1
    /\ UNCHANGED <<access_token, asset_token, pc, call, token_history,
                   pipelineVars, recordVars, endpointVars>>

\* line 94: the token request is sent, whatever the other calls did meanwhile
PostTokenRequest(t) ==
    /\ threads[t].pc = "post"
    /\ threads' = [threads EXCEPT ![t] = [At(@, "wait") EXCEPT !.issued = TRUE]]
    /\ auth_requests' = auth_requests + 1
    /\ UNCHANGED <<access_token, asset_token, pc, call, token_history,
                   pipelineVars, recordVars, endpointVars>>

\* lines 100-102 and 106: the answer is there; a 200 stores its token in
\* self._access_token, anything else raises out of get_product
StoreToken(t) ==
    /\ threads[t].pc = "wait"
    /\ \E tr \in ClientTokenResponses :
          IF ~tr.raises /\ tr.status_code = 200
          THEN /\ access_token' = tr.access_token
               /\ threads' = [threads EXCEPT ![t] = At(@, "load")]
          ELSE /\ threads' = [threads EXCEPT ![t] = At(@, "failed")]
               /\ UNCHANGED access_token
    /\ UNCHANGED <<asset_token, auth_requests, pc, call, token_history,
                   pipelineVars, recordVars, endpointVars>>

\* line 103, the argument of set_access_token: self._access_token is read
LoadToken(t) ==
    /\ threads[t].pc = "load"
    /\ threads' = [threads EXCEPT ![t] = [At(@, "set") EXCEPT !.arg = access_token]]
    /\ UNCHANGED <<access_token, asset_token, auth_requests, pc, call, token_history,
                   pipelineVars, recordVars, endpointVars>>

\* line 20, the body of set_access_token: the argument is stored
SetAccessToken(t) ==
    /\ threads[t].pc = "set"
    /\ asset_token' = threads[t].arg
    /\ threads' = [threads EXCEPT ![t] = At(@, "ret")]
    /\ UNCHANGED <<access_token, auth_requests, pc, call, token_history,
                   pipelineVars, recordVars, endpointVars>>

\* line 104: self._access_token is read again and returned
ReturnToken(t) ==
    /\ threads[t].pc = "ret"
    /\ threads' = [threads EXCEPT ![t] = [At(@, "lookup") EXCEPT !.token = access_token]]
    /\ UNCHANGED <<access_token, asset_token, auth_requests, pc, call, token_history,
                   pipelineVars, recordVars, endpointVars>>

\* lines 146-191: the product request is sent with the token and get_product ends
SendLookup(t) ==
    /\ threads[t].pc = "lookup"
    /\ threads' = [threads EXCEPT ![t] = At(@, "done")]
    /\ UNCHANGED <<access_token, asset_token, auth_requests, pc, call, token_history,
                   pipelineVars, recordVars, endpointVars>>

RaceNext ==
    \E t \in Threads :
        \/ EnterGetProduct(t)
        \/ CheckToken(t)
        \/ PostTokenRequest(t)
        \/ StoreToken(t)
        \/ LoadToken(t)
        \/ SetAccessToken(t)
        \/ ReturnToken(t)
        \/ SendLookup(t)

\* get_product calls running at the same time on one AkeneoService
RaceSpec == Init /\ [][RaceNext]_vars

\* ------------------------------- actions of the filter and the validator
\* filter_active_campaigns(campaigns) is called at the moment now
CallFilterActiveCampaigns ==
    /\ pc = "idle"
    /\ \E cs \in SeqsUpTo(FilterRecords, MaxCampaigns), now \in Nows :
          /\ filter_campaigns' = cs
          /\ current_date' = now
          /\ active_campaigns' = FilterActiveCampaigns(cs, now)
    /\ pc' = "filtered"
    /\ UNCHANGED <<raw_data, errors, summary_campaigns, summary, access_token, asset_token,
                   pipelineVars, clientVars, raceVars, endpointVars>>

\* validate_campaign_data(raw_data) is called
CallValidateCampaignData ==
    /\ pc = "idle"
    /\ \E raw \in ValidateRecords :
          /\ raw_data' = raw
          /\ errors' = ValidateCampaignData(raw)
    /\ pc' = "validated"
    /\ UNCHANGED <<current_date, filter_campaigns, active_campaigns, summary_campaigns,
                   summary, access_token, asset_token, pipelineVars, clientVars, raceVars, endpointVars>>

\* get_campaign_summary(campaigns) is called
CallGetCampaignSummary ==
    /\ pc = "idle"
    /\ \E cs \in SeqsUpTo(SummaryCampaigns, MaxCampaigns) :
          /\ summary_campaigns' = cs
          /\ summary' = GetCampaignSummary(cs)
    /\ pc' = "summarized"
    /\ UNCHANGED <<current_date, filter_campaigns, active_campaigns, raw_data, errors,
                   access_token, asset_token, pipelineVars, clientVars, raceVars, endpointVars>>

\* the caller has its list
RecordReturn ==
    /\ pc \in {"filtered", "validated", "summarized"}
    /\ pc' = "idle"
    /\ current_date' = 0
    /\ filter_campaigns' = <<>>
    /\ active_campaigns' = <<>>
    /\ raw_data' = NoRecord
    /\ errors' = <<>>
    /\ summary_campaigns' = <<>>
    /\ summary' = [total_campaigns |-> 0]
    /\ UNCHANGED <<access_token, asset_token, pipelineVars, clientVars, raceVars, endpointVars>>

RecordNext ==
    \/ CallFilterActiveCampaigns
    \/ CallValidateCampaignData
    \/ CallGetCampaignSummary
    \/ RecordReturn

\* the filter and the validator applied to records
RecordSpec == Init /\ [][RecordNext]_vars

\* ------------------------------------------- actions of the route handlers
\* GET /campaigns: the records of storage go through process_campaign_data;
\* an exception of the storage layer is answered 500
RouteGetCampaigns ==
    /\ pc = "idle"
    /\ \E svc \in {Service(access_token, asset_token)}, obtained \in BOOLEAN :
       \E rows \in IF obtained THEN SeqsUpTo(StoredRows, MaxBatch) ELSE {<<>>} :
       \E raws \in {ConvertRows(rows, 1, <<>>)} :
       \E answers \in AnswersFor(raws) :
       \E p \in {ProcessFrom(raws, answers, 1, svc, <<>>, 0, 0)} :
          /\ request' =
                IF ~obtained
                THEN Answer("campaigns", FALSE, <<>>, <<>>, 500, "error", Nothing, 0, svc)
                ELSE IF raws = <<>>
                THEN Answer("campaigns", TRUE, raws, <<>>, 200, "response",
                            Just(MakeResponse(<<>>, <<>>, 0)), 0, svc)
                ELSE Answer("campaigns", TRUE, raws, raws, 200, "response",
                            Just(p.response), p.pim, svc)
          /\ access_token' = p.svc.access_token
          /\ asset_token' = p.svc.asset_token
    /\ pc' = "answered"
    /\ UNCHANGED <<pipelineVars, clientVars, raceVars, recordVars>>

\* GET /campaigns/active: the records go through filter_active_campaigns first
RouteGetActiveCampaigns ==
    /\ pc = "idle"
    /\ \E svc \in {Service(access_token, asset_token)}, obtained \in BOOLEAN :
       \E rows \in IF obtained THEN SeqsUpTo(StoredRows, MaxBatch) ELSE {<<>>} :
       \E raws \in {ConvertRows(rows, 1, <<>>)}, now \in Nows :
       \E active \in {FilterActiveCampaigns(raws, now)} :
       \E answers \in AnswersFor(active) :
       \E p \in {ProcessFrom(active, answers, 1, svc, <<>>, 0, 0)} :
          /\ request' =
                IF ~obtained
                THEN Answer("campaigns/active", FALSE, <<>>, <<>>, 500, "error",
                            Nothing, 0, svc)
                ELSE IF raws = <<>>
                THEN Answer("campaigns/active", TRUE, raws, <<>>, 200, "response",
                            Just(MakeResponse(<<>>, <<>>, 0)), 0, svc)
                ELSE Answer("campaigns/active", TRUE, raws, active, 200, "response",
                            Just(p.response), p.pim, svc)
          /\ access_token' = p.svc.access_token
          /\ asset_token' = p.svc.asset_token
    /\ pc' = "answered"
    /\ UNCHANGED <<pipelineVars, clientVars, raceVars, recordVars>>

\* GET /campaigns/export: 404 without records or without a record that could
\* be transformed; else the file, or 500 when it could not be written
RouteExportCampaigns ==
    /\ pc = "idle"
    /\ \E svc \in {Service(access_token, asset_token)}, obtained \in BOOLEAN :
       \E rows \in IF obtained THEN SeqsUpTo(StoredRows, MaxBatch) ELSE {<<>>} :
       \E raws \in {ConvertRows(rows, 1, <<>>)}, written \in BOOLEAN :
       \E answers \in AnswersFor(raws) :
       \E p \in {ProcessFrom(raws, answers, 1, svc, <<>>, 0, 0)} :
          /\ request' =
                IF ~obtained
                THEN Answer("campaigns/export", FALSE, <<>>, <<>>, 500, "error",
                            Nothing, 0, svc)
                ELSE IF raws = <<>>
                THEN Answer("campaigns/export", TRUE, raws, <<>>, 404, "error",
                            Nothing, 0, svc)
                ELSE IF p.response.campaigns = <<>>
                THEN Answer("campaigns/export", TRUE, raws, raws, 404, "error",
                            Nothing, p.pim, svc)
                ELSE IF written
                THEN Answer("campaigns/export", TRUE, raws, raws, 200, "file",
                            Nothing, p.pim, svc)
                ELSE Answer("campaigns/export", TRUE, raws, raws, 500, "error",
                            Nothing, p.pim, svc)
          /\ access_token' = p.svc.access_token
          /\ asset_token' = p.svc.asset_token
    /\ pc' = "answered"
    /\ UNCHANGED <<pipelineVars, clientVars, raceVars, recordVars>>

\* GET /campaigns/summary: the summary of the records transformed, with the
\* processing counts unless storage had no record
RouteGetCampaignSummary ==
    /\ pc = "idle"
    /\ \E svc \in {Service(access_token, asset_token)}, obtained \in BOOLEAN :
       \E rows \in IF obtained THEN SeqsUpTo(StoredRows, MaxBatch) ELSE {<<>>} :
       \E raws \in {ConvertRows(rows, 1, <<>>)} :
       \E answers \in AnswersFor(raws) :
       \E p \in {ProcessFrom(raws, answers, 1, svc, <<>>, 0, 0)} :
          /\ request' =
                IF ~obtained
                THEN Answer("campaigns/summary", FALSE, <<>>, <<>>, 500, "error",
                            Nothing, 0, svc)
                ELSE IF raws = <<>>
                THEN Answer("campaigns/summary", TRUE, raws, <<>>, 200, "summary",
                            Nothing, 0, svc)
                ELSE Answer("campaigns/summary", TRUE, raws, raws, 200, "summary",
                            Just(p.response), p.pim, svc)
          /\ access_token' = p.svc.access_token
          /\ asset_token' = p.svc.asset_token
    /\ pc' = "answered"
    /\ UNCHANGED <<pipelineVars, clientVars, raceVars, recordVars>>

\* GET /campaigns/product/{product_id}: 404 when get_campaign_by_product_id
\* returns None (no row, or an exception it caught), 500 when the record
\* could not be transformed
RouteGetCampaignByProduct ==
    /\ pc = "idle"
    /\ \E svc \in {Service(access_token, asset_token)} :
       \E raws \in {<<>>} \cup {RowToRecord(row) : row \in StoredRows} :
       \E answers \in AnswersFor(raws) :
       \E p \in {ProcessFrom(raws, answers, 1, svc, <<>>, 0, 0)} :
          /\ request' =
                IF raws = <<>>
                THEN Answer("campaigns/product", FALSE, <<>>, <<>>, 404, "error",
                            Nothing, 0, svc)
                ELSE IF p.response.campaigns = <<>>
                THEN Answer("campaigns/product", TRUE, raws, raws, 500, "error",
                            Nothing, p.pim, svc)
                ELSE Answer("campaigns/product", TRUE, raws, raws, 200, "campaign",
                            Just(p.response), p.pim, svc)
          /\ access_token' = p.svc.access_token
          /\ asset_token' = p.svc.asset_token
    /\ pc' = "answered"
    /\ UNCHANGED <<pipelineVars, clientVars, raceVars, recordVars>>

\* GET /campaigns of the dashboard: the page with the records transformed
\* and the processing counts, or the error page
RouteCampaignsPage ==
    /\ pc = "idle"
    /\ \E svc \in {Service(access_token, asset_token)}, obtained \in BOOLEAN :
       \E rows \in IF obtained THEN SeqsUpTo(StoredRows, MaxBatch) ELSE {<<>>} :
       \E raws \in {ConvertRows(rows, 1, <<>>)} :
       \E answers \in AnswersFor(raws) :
       \E p \in {ProcessFrom(raws, answers, 1, svc, <<>>, 0, 0)} :
          /\ request' =
                IF ~obtained
                THEN Answer("dashboard/campaigns", FALSE, <<>>, <<>>, 200, "error",
                            Nothing, 0, svc)
                ELSE Answer("dashboard/campaigns", TRUE, raws, raws, 200, "page",
                            Just(p.response), p.pim, svc)
          /\ access_token' = p.svc.access_token
          /\ asset_token' = p.svc.asset_token
    /\ pc' = "answered"
    /\ UNCHANGED <<pipelineVars, clientVars, raceVars, recordVars>>

\* POST /campaigns/validate: every record is validated, none is transformed
RouteValidateCampaigns ==
    /\ pc = "idle"
    /\ \E svc \in {Service(access_token, asset_token)}, obtained \in BOOLEAN :
       \E rows \in IF obtained THEN SeqsUpTo(StoredRows, MaxBatch) ELSE {<<>>} :
       \E raws \in {ConvertRows(rows, 1, <<>>)} :
          request' =
             IF ~obtained
             THEN Answer("campaigns/validate", FALSE, <<>>, <<>>, 500, "error",
                         Nothing, 0, svc)
             ELSE [Answer("campaigns/validate", TRUE, raws, <<>>, 200, "validation",
                          Nothing, 0, svc)
                   EXCEPT !.validation = Just(ValidateFrom(raws, 1, 0, 0, <<>>))]
    /\ pc' = "answered"
    /\ UNCHANGED <<access_token, asset_token, pipelineVars, clientVars, raceVars,
                   recordVars>>

\* the answer has been sent; the services live on
EndpointReturn ==
    /\ pc = "answered"
    /\ pc' = "idle"
    /\ request' = NoRequest
    /\ UNCHANGED <<access_token, asset_token, pipelineVars, clientVars, raceVars,
                   recordVars>>

EndpointNext ==
    \/ RouteGetCampaigns
    \/ RouteGetActiveCampaigns
    \/ RouteExportCampaigns
    \/ RouteGetCampaignSummary
    \/ RouteGetCampaignByProduct
    \/ RouteCampaignsPage
    \/ RouteValidateCampaigns
    \/ EndpointReturn

\* HTTP requests handled one after the other by the module-level services
EndpointSpec == Init /\ [][EndpointNext]_vars

TypeOK ==
    /\ pc \in {"idle", "loop", "mrp", "build", "done", "direct", "called", "filtered",
              "validated", "summarized", "answered"}
    /\ idx \in 1..(Len(raw_campaigns) + 1)
    /\ failed_count \in 0..Len(raw_campaigns)

\* ------------------------------------------------------------ properties
InLoop == pc \in {"loop", "mrp", "build"}

\* the pairs of the records i.. of raws whose transform (outs[i]) succeeded
RECURSIVE Successes(_, _, _)
Successes(raws, outs, i) ==
    IF i > Len(outs) THEN <<>>
    ELSE IF outs[i] # Nothing
         THEN <<[raw_data |-> raws[i], falcon_data |-> outs[i][1]]>>
              \o Successes(raws, outs, i + 1)
         ELSE Successes(raws, outs, i + 1)

\* the number of None among outs
RECURSIVE Failures(_, _)
Failures(outs, i) ==
    IF i > Len(outs) THEN 0
    ELSE (IF outs[i] = Nothing THEN 1 ELSE 0) + Failures(outs, i + 1)

\* C1: the CampaignResponse of process_campaign_data has processed_count +
\* failed_count = total_count, total_count = len(input) and processed_count =
\* len(campaigns), whatever the mix of successes and failures (empty list too).
CountsAddUp ==
    pc = "done" =>
        /\ response # Nothing
        /\ response[1].processed_count + response[1].failed_count = response[1].total_count
        /\ response[1].total_count = Len(raw_campaigns)
        /\ response[1].processed_count = Len(response[1].campaigns)
        /\ response[1].failed_count = Failures(results, 1)

\* a batch that returned with one record enriched and one failed
CountsAddUpWitness ==
    /\ pc = "done"
    /\ response[1].processed_count = 1
    /\ response[1].failed_count = 1
    /\ response[1].total_count = 2

\* one step of the running loop of process_campaign_data
LoopStep == ProcessSku \/ ProcessMrp \/ ProcessBuild \/ ProcessReturn

\* the number of steps the loop still has to make before it has returned
Remaining ==
    IF pc = "done" THEN 0
    ELSE 3 * (Len(raw_campaigns) - idx + 1)
         + (IF pc = "loop" THEN 1 ELSE IF pc = "mrp" THEN 0 ELSE -1)

\* C2: no record failure aborts the batch. The running loop is never stuck and
\* each of its steps brings the return one step closer (so it terminates, in
\* 3 x len(input) + 1 steps); when it has returned, every input record was
\* attempted exactly once (one result per record, in step with the loop
\* position); and a record whose transform fails only increments failed_count
\* while the loop goes on to the next record.
BatchNeverAborts ==
    /\ [](InLoop => /\ ENABLED LoopStep
                    /\ Len(results) = idx - 1
                    /\ Remaining \in 1..(3 * Len(raw_campaigns) + 1))
    /\ [][InLoop => /\ InLoop' \/ pc' = "done"
                    /\ Remaining' = Remaining - 1
                    /\ raw_campaigns' = raw_campaigns]_vars
    /\ [](pc = "done" => /\ response # Nothing
                          /\ Len(results) = Len(raw_campaigns)
                          /\ idx = Len(raw_campaigns) + 1)
    /\ [][pc = "build" /\ BuildFalcon(raw_campaigns[idx], sku_id, mrp) = Nothing
            => /\ failed_count' = failed_count + 1
               /\ processed_campaigns' = processed_campaigns
               /\ idx' = idx + 1
               /\ pc' = "loop"]_vars

\* a batch that returned although its first record failed and its second did not
BatchNeverAbortsWitness ==
    /\ pc = "done"
    /\ Len(results) = 2
    /\ results[1] = Nothing
    /\ results[2] # Nothing

\* C10: the campaigns list is, in input order, exactly the records whose
\* transform succeeded, each paired with the record enriched from it.
OrderPreserved ==
    /\ InLoop \/ pc = "done" =>
          processed_campaigns = Successes(raw_campaigns, results, 1)
    /\ pc = "done" =>
          /\ response[1].campaigns = Successes(raw_campaigns, results, 1)
          /\ \A i \in 1..Len(response[1].campaigns) :
                LET c == response[1].campaigns[i] IN
                /\ c.falcon_data.product_id = c.raw_data.product_id
                /\ c.falcon_data.selling_price = c.raw_data.selling_price

\* a batch of two different records that both succeeded
OrderPreservedWitness ==
    /\ pc = "done"
    /\ Len(response[1].campaigns) = 2
    /\ response[1].campaigns[1].raw_data = raw_campaigns[1]
    /\ response[1].campaigns[2].raw_data = raw_campaigns[2]
    /\ raw_campaigns[1] # raw_campaigns[2]

\* --------------------------------------- properties of one transform call
\* the selling price times 1.5
Fallback(raw) == (raw.selling_price * 3) \div 2

\* the last pair of the batch is the one made by the last transform call
LastCounted ==
    /\ processed_campaigns # <<>>
    /\ processed_campaigns[Len(processed_campaigns)]
         = [raw_data |-> last.raw, falcon_data |-> last.out[1]]
    /\ results[Len(results)] = last.out

\* C3 (as stated): a raw record with a non-empty product_id is always enriched,
\* with a non-empty sku_id, whatever the PIM answers.
AlwaysEnriched ==
    last.done /\ last.raw.product_id # "" =>
        /\ last.out # Nothing
        /\ last.out[1].sku_id # ""

\* C4: a non-empty preferred_landing_sku_id is the sku_id and the PIM is not
\* asked for the SKU; otherwise a non-empty answer of get_product_sku_mapping
\* is the sku_id of the enriched record; otherwise product_id is.
SkuPriority ==
    last.done =>
        /\ ~Falsy(last.raw.preferred_landing_sku_id) =>
              /\ ~last.skuCalled
              /\ last.out # Nothing
              /\ last.out[1].sku_id = last.raw.preferred_landing_sku_id.s
        /\ Falsy(last.raw.preferred_landing_sku_id) =>
              /\ last.skuCalled
              /\ ~Falsy(last.skuRet) /\ last.out # Nothing =>
                    /\ last.skuRet.t = "str"
                    /\ last.out[1].sku_id = last.skuRet.s
              /\ Falsy(last.skuRet) =>
                    /\ last.out # Nothing
                    /\ last.out[1].sku_id = last.raw.product_id

\* a record without preferred SKU whose sku_id is the one the PIM gave
SkuPriorityWitness ==
    /\ last.done
    /\ Falsy(last.raw.preferred_landing_sku_id)
    /\ last.skuRet = Str("S1")
    /\ last.raw.product_id = "P1"
    /\ last.out # Nothing
    /\ last.out[1].sku_id = "S1"

\* C5 (as stated): whenever raw.MRP is not None it is the output MRP and
\* get_product_mrp is not called; otherwise a value returned by get_product_mrp
\* is the output MRP; selling_price x 1.5 only when it returned None.
MrpPriorityNonNull ==
    last.done =>
        /\ last.raw.MRP # None =>
              /\ ~last.mrpCalled
              /\ last.out # Nothing => last.out[1].MRP = last.raw.MRP.n
        /\ last.raw.MRP = None /\ last.out # Nothing =>
              last.out[1].MRP = IF last.mrpRet # None THEN last.mrpRet.n
                                ELSE Fallback(last.raw)

\* C5 (amended): a raw.MRP that is present and not zero is the output MRP and
\* get_product_mrp is not called; otherwise (None or 0) get_product_mrp is
\* called and a non-zero value it returns is the output MRP; when it returns
\* None or 0 the output MRP is selling_price x 1.5.
MrpPriority ==
    last.done =>
        /\ ~Falsy(last.raw.MRP) =>
              /\ ~last.mrpCalled
              /\ last.out # Nothing => last.out[1].MRP = last.raw.MRP.n
        /\ Falsy(last.raw.MRP) =>
              /\ last.mrpCalled
              /\ last.out # Nothing =>
                    last.out[1].MRP = IF ~Falsy(last.mrpRet) THEN last.mrpRet.n
                                      ELSE Fallback(last.raw)

\* a record whose MRP is 0 and whose output MRP is the one the PIM gave
MrpPriorityWitness ==
    /\ last.done
    /\ last.raw.MRP = Num(0)
    /\ last.mrpCalled
    /\ last.mrpRet = Num(250000)
    /\ last.out # Nothing
    /\ last.out[1].MRP = 250000

\* the PIM failures that are not a plain "not found"
HardFailures == {"auth", "status", "malformed"}

\* C6 (as stated): a PIM failure other than "not found" during the SKU or the
\* MRP resolution makes the transform fail for that record.
PimFailureFailsRecord ==
    last.done /\ (last.skuFailure \in HardFailures \/ last.mrpFailure \in HardFailures)
        => last.out = Nothing

\* C6 (amended): a PIM failure during the SKU or the MRP resolution does not
\* make the transform fail: the lookup returns None and the fallback takes
\* over. A failed SKU lookup gives an enriched record with sku_id =
\* product_id, which process_campaign_data emits and counts as processed; a
\* failed MRP lookup gives MRP = selling_price x 1.5 in the enriched record.
PimFailureFallsBack ==
    last.done =>
        /\ last.skuFailure # "" =>
              /\ last.skuRet = None
              /\ last.out # Nothing
              /\ last.out[1].sku_id = last.raw.product_id
              /\ InLoop => LastCounted
        /\ last.mrpFailure # "" =>
              /\ last.mrpRet = None
              /\ last.out # Nothing => last.out[1].MRP = Fallback(last.raw)

\* a record of a batch enriched although authentication failed for its SKU
\* lookup and the server failed for its MRP lookup
PimFailureFallsBackWitness ==
    /\ last.done
    /\ pc = "loop"
    /\ last.skuFailure = "auth"
    /\ last.mrpFailure = "status"
    /\ last.out # Nothing
    /\ failed_count = 0

\* C7: when get_product raises for the SKU and for the MRP lookup of a record
\* without preferred SKU and without MRP, the transform succeeds with sku_id =
\* product_id and MRP = selling_price x 1.5, and a batch counts it as processed.
LookupFailureRecovered ==
    last.done /\ last.skuCalled /\ last.mrpCalled
              /\ last.skuFailure # "" /\ last.mrpFailure # "" =>
        /\ last.out # Nothing
        /\ last.out[1].sku_id = last.raw.product_id
        /\ last.out[1].MRP * 2 = last.raw.selling_price * 3
        /\ InLoop => LastCounted /\ failed_count = Failures(results, 1)

\* a record of a batch whose two product fetches failed and which was emitted
LookupFailureRecoveredWitness ==
    /\ last.done
    /\ pc = "loop"
    /\ last.skuFailure = "status"
    /\ last.mrpFailure = "error"
    /\ last.lookups = 2
    /\ last.raw.selling_price = 100000
    /\ last.out # Nothing
    /\ last.out[1].MRP = 150000
    /\ Len(processed_campaigns) = Len(results)

\* C8: every enriched record has selling_price = MOP = selling_price_cost =
\* raw.selling_price, mop_cost = raw.selling_price x 0.979, coins = 2000 and
\* product_id = raw.product_id, however SKU and MRP were resolved; selling
\* price 100 with both lookups returning None gives MRP 150, mop_cost 97.9,
\* MOP 100, coins 2000 (amounts in thousandths).
PricingDerivation ==
    last.done /\ last.out # Nothing =>
        /\ last.out[1].selling_price = last.raw.selling_price
        /\ last.out[1].MOP = last.raw.selling_price
        /\ last.out[1].selling_price_cost = last.raw.selling_price
        /\ last.out[1].mop_cost * 1000 = last.raw.selling_price * 979
        /\ last.out[1].coins = 2000
        /\ last.out[1].product_id = last.raw.product_id
        /\ last.raw.selling_price = 100000 /\ last.skuCalled /\ last.mrpCalled
           /\ last.skuRet = None /\ last.mrpRet = None =>
              /\ last.out[1].MRP = 150000
              /\ last.out[1].mop_cost = 97900
              /\ last.out[1].MOP = 100000
              /\ last.out[1].sku_id = last.raw.product_id

\* the scenario of the specification: P1 at 100, both lookups return None
PricingDerivationWitness ==
    /\ last.done
    /\ last.raw = [product_id |-> "P1", preferred_landing_sku_id |-> None,
                    MRP |-> None, selling_price |-> 100000]
    /\ last.skuRet = None /\ last.mrpRet = None
    /\ last.out = Just([sku_id |-> "P1", product_id |-> "P1", MRP |-> 150000,
                         MOP |-> 100000, selling_price |-> 100000,
                         mop_cost |-> 97900, selling_price_cost |-> 100000,
                         coins |-> 2000])

\* C9: transform called twice in a row on the same raw record, the PIM
\* answering the same way, returns the same output both times, also when the
\* first call caches the access token and the second one reuses it.
TransformIdempotent ==
    pc = "direct" =>
        /\ again.done /\ last.done
        /\ again.raw = last.raw
        /\ again.out = last.out

\* the first call authenticated and fetched, the second reused the token
TransformIdempotentWitness ==
    /\ pc = "direct"
    /\ last.before.access_token = None
    /\ last.auth = 1
    /\ again.before.access_token = Str("T1")
    /\ again.auth = 0
    /\ again.lookups = 2
    /\ last.out # Nothing
    /\ last.out[1].sku_id = "S1"
    /\ again.out = last.out

\* the product lookups a resolution step sends: one when it calls the PIM and
\* the token is there
LookupsSent(called, failure) == IF called /\ failure # "auth" THEN 1 ELSE 0

\* C28: PIM access is on demand. A transform of a record with a non-empty
\* preferred_landing_sku_id and a non-zero MRP sends no request at all (no
\* authentication, no lookup); otherwise the SKU step and the MRP step each
\* call the PIM iff their own field is missing and each sends one product
\* lookup of its own (two per record at most, nothing being cached between
\* them); the record handed in is the one still in the list afterwards.
PimOnDemand ==
    /\ last.done =>
          /\ ~Asks(last.raw) =>
                /\ ~last.skuCalled /\ ~last.mrpCalled
                /\ last.auth = 0 /\ last.lookups = 0
                /\ access_token = last.before.access_token
          /\ last.skuCalled <=> Falsy(last.raw.preferred_landing_sku_id)
          /\ last.mrpCalled <=> Falsy(last.raw.MRP)
          /\ last.lookups = LookupsSent(last.skuCalled, last.skuFailure)
                             + LookupsSent(last.mrpCalled, last.mrpFailure)
          /\ last.lookups <= 2
    /\ pc \in {"mrp", "build"} => last.raw = raw_campaigns[idx]
    /\ pc = "loop" /\ last.done => last.raw = raw_campaigns[idx - 1]
    /\ pc = "direct" => again.raw = last.raw

\* a complete record transformed by a client that holds no token and still
\* holds none afterwards
PimOnDemandWitness ==
    /\ last.done
    /\ last.raw.preferred_landing_sku_id = Str("K1")
    /\ last.raw.MRP = Num(300000)
    /\ last.before.access_token = None
    /\ last.auth = 0
    /\ last.lookups = 0
    /\ last.out # Nothing
    /\ access_token = None

\* ----------------------------------- properties of the calls on the client
\* the client method that was called
Called(op) == pc = "called" /\ call.op = op

LookupOps == {"get_product", "get_product_sku_mapping", "get_product_mrp"}

\* the product fetch of the call succeeded
Fetched == call.lookups = 1 /\ call.failure = ""

\* C11 (as stated): once a _get_access_token call has returned normally, the
\* token is cached: no later call on the client sends another token request
\* and the cached token is not changed, also when the lookup fails.
TokenCachedOnceReturned ==
    pc = "called" /\ call.history.returned =>
        /\ call.auth = 0
        /\ ~Falsy(call.before.access_token)
        /\ access_token = call.before.access_token

\* C12: a non-success status of the token request makes _get_access_token
\* raise an error that carries that status and the body, sends no lookup and
\* leaves the client as it was, without token; the next call that needs a
\* token sends a token request of its own and gets the token if granted.
TokenRefusalLeavesNoToken ==
    pc = "called" =>
        /\ call.auth = 1 /\ ~call.tr.raises /\ call.tr.status_code # 200 =>
              /\ call.token_raised
              /\ call.error = [kind |-> "status", status_code |-> call.tr.status_code,
                               text |-> call.tr.text]
              /\ call.lookups = 0
              /\ access_token = call.before.access_token
              /\ asset_token = call.before.asset_token
              /\ Falsy(access_token)
        /\ call.history.refused =>
              /\ Falsy(call.before.access_token)
              /\ call.auth = 1
              /\ ~call.tr.raises /\ call.tr.status_code = 200 =>
                    /\ ~call.token_raised
                    /\ call.token = call.tr.access_token
                    /\ access_token = call.tr.access_token

\* a product fetched with a fresh token right after a refused token request
TokenRefusalLeavesNoTokenWitness ==
    /\ Called("get_product")
    /\ call.history.refused
    /\ call.auth = 1
    /\ call.lookups = 1
    /\ ~call.raised
    /\ access_token = Str("T1")

\* C13 (as stated): get_product and the lookups built on it send no product
\* request without holding a token: without a cached token they authenticate
\* first, a failed authentication raises and sends no product request, and a
\* non-success status of the lookup makes get_product raise.
LookupHoldsToken ==
    pc = "called" /\ call.op \in LookupOps =>
        /\ Falsy(call.before.access_token) => call.auth = 1
        /\ call.token_raised =>
              /\ call.lookups = 0
              /\ call.op = "get_product" => call.raised /\ call.product = Nothing
        /\ call.lookups = 1 => ~call.token_raised /\ ~Falsy(call.token)
        /\ call.op = "get_product" /\ call.lookups = 1 /\ ~call.pr.raises
           /\ call.pr.status_code # 200 =>
              call.raised /\ call.product = Nothing

\* the "sku" attribute of the fetched product has a first value
HasSku == "sku" \in DOMAIN call.pr.values /\ call.pr.values["sku"] # <<>>

\* C14 (as stated): get_product_sku_mapping never raises, returns the first
\* "sku" value when the attribute is present and non-empty, product_id when it
\* is not, and None only when the product fetch failed.
SkuMappingNullOnlyOnFailure ==
    Called("get_product_sku_mapping") =>
        /\ ~call.raised
        /\ Fetched /\ HasSku => call.ret = call.pr.values["sku"][1]
        /\ Fetched /\ ~HasSku => call.ret = Str(call.product_id)
        /\ call.ret = None => ~Fetched

\* C14 (amended): get_product_sku_mapping never raises; after a successful
\* fetch it returns the data of the first "sku" value as it is whenever the
\* attribute has a value (so None when that data is null) and product_id when
\* the attribute is absent or has no value; it returns None when the fetch
\* failed, and otherwise only when that first data is null.
SkuMappingFirstValue ==
    Called("get_product_sku_mapping") =>
        /\ ~call.raised
        /\ Fetched /\ HasSku => call.ret = call.pr.values["sku"][1]
        /\ Fetched /\ ~HasSku => call.ret = Str(call.product_id)
        /\ ~Fetched => call.ret = None
        /\ call.ret = None => ~Fetched \/ (HasSku /\ call.pr.values["sku"][1] = None)

\* a product fetched whose first "sku" value has null data: None is returned
SkuMappingFirstValueWitness ==
    /\ Called("get_product_sku_mapping")
    /\ Fetched
    /\ HasSku
    /\ call.pr.values["sku"][1] = None
    /\ call.ret = None

\* candidate i of the MRP attribute codes is present, not null and numeric
Qualifies(values, i) ==
    /\ MrpAttributes[i] \in DOMAIN values
    /\ values[MrpAttributes[i]] # <<>>
    /\ values[MrpAttributes[i]][1] # None
    /\ ~Float(values[MrpAttributes[i]][1]).raised

\* the first qualifying candidate as a float, None without one
FirstQualifying(values) ==
    LET Q == {i \in 1..Len(MrpAttributes) : Qualifies(values, i)} IN
    IF Q = {} THEN None
    ELSE Float(values[MrpAttributes[CHOOSE i \in Q : \A j \in Q : i <= j]][1]).val

\* C15 (as stated): get_product_mrp never raises and returns, as a float, the
\* first of mrp, MRP, maximum_retail_price, list_price that is present,
\* non-null and numeric, skipping null and non-numeric candidates; None when no
\* candidate qualifies or the fetch failed.
MrpFirstNumeric ==
    Called("get_product_mrp") =>
        /\ ~call.raised
        /\ Fetched => call.ret = FirstQualifying(call.pr.values)
        /\ ~Fetched => call.ret = None

\* ------------------------------------------ properties of concurrent calls
\* the calls that sent a token request
Issuers == {t \in Threads : threads[t].issued}

\* C16: nothing collapses concurrent first callers of _get_access_token into
\* one authentication: every call that found no token at the test of line 79
\* sends a token request of its own once it goes on, whether or not another
\* call has stored a token since, and the requests sent are exactly theirs; so
\* more than one token request is sent for the first acquisition.
RaceAuthRequests ==
    /\ auth_requests = Cardinality(Issuers)
    /\ \A t \in Threads :
          /\ threads[t].issued => threads[t].saw_none
          /\ threads[t].saw_none /\ threads[t].pc # "post" => threads[t].issued

\* two token requests in flight at once while no token has been stored yet
RaceAuthRequestsWitness ==
    /\ auth_requests >= 2
    /\ Falsy(access_token)
    /\ \E t, u \in Threads :
          /\ t # u
          /\ threads[t].issued /\ threads[t].pc = "wait"
          /\ threads[u].issued /\ threads[u].pc = "wait"

\* no call is inside _get_access_token
TokenCallsReturned ==
    \A t \in Threads : threads[t].pc \in {"idle", "lookup", "done", "failed"}

\* C27 (as stated): the token of the AssetService equals the cached token of
\* the AkeneoService (both absent or the same value) whenever no
\* _get_access_token call is in progress, also after two concurrent first
\* authentications have both returned.
AssetTokenFollows == TokenCallsReturned => asset_token = access_token

\* --------------------------------------------- properties of asset fetching
\* the asset requests of the call that were answered 200
FetchedAssets ==
    {i \in 1..Len(call.answers) :
        ~call.answers[i].raises /\ call.answers[i].status_code = 200}

\* the asset family the call asks in
FamilyAsked ==
    IF ~Falsy(call.value.reference_data_name) THEN call.value.reference_data_name.s
    ELSE "pdp_scroll"

\* C17: when get_product resolves an asset-collection value, an asset lookup
\* that fails (non-200 status or exception) only leaves that asset out: the
\* fetch returns its ProductDetails and the assets of the value are exactly
\* the assets fetched with success, in the order of their codes.
AssetFailuresOmitted ==
    /\ Called("get_product") /\ Fetched => ~call.raised /\ call.product # Nothing
    /\ Called("get_product") /\ Fetched
       /\ call.value.attribute_type = "pim_catalog_asset_collection"
       /\ call.value.is_list =>
          /\ call.assets # Nothing
          /\ Len(call.assets[1]) = Cardinality(FetchedAssets)
          /\ \E f \in [1..Len(call.assets[1]) -> FetchedAssets] :
                /\ \A j, k \in DOMAIN f : j < k => f[j] < f[k]
                /\ \A k \in DOMAIN f :
                      call.assets[1][k] = AssetJson(FamilyAsked, call.value.data[f[k]])

\* the first of two assets could not be fetched and the second one is there
AssetFailuresOmittedWitness ==
    /\ Called("get_product")
    /\ Fetched
    /\ call.value.attribute_type = "pim_catalog_asset_collection"
    /\ call.value.data = <<"A1", "A2">>
    /\ call.answers[1].status_code = 404
    /\ call.answers[2].status_code = 200
    /\ call.assets = Just(<<AssetJson("pdp_scroll", "A2")>>)

\* ----------------------------------- properties of the filter and validator
\* the number of times x occurs in the list q
Occurrences(q, x) == Cardinality({i \in DOMAIN q : q[i] = x})

\* a is b with some elements left out
RECURSIVE IsSubSeq(_, _)
IsSubSeq(a, b) ==
    IF a = <<>> THEN TRUE
    ELSE IF b = <<>> THEN FALSE
    ELSE IF Head(a) = Head(b) THEN IsSubSeq(Tail(a), Tail(b))
    ELSE IsSubSeq(a, Tail(b))

\* the day of the moment now
Today == current_date \div TicksPerDay

\* C18 (as stated): a record whose dates parse is kept iff live date <= now <=
\* end date with both days included: it is kept at every moment from the
\* start of its live date through its end date (so when now falls on the end
\* date) and dropped when its end date is before the day of now.
ActiveThroughEndDate ==
    pc = "filtered" =>
        \A i \in DOMAIN filter_campaigns :
            Strptime(filter_campaigns[i].live_date).ok
            /\ Strptime(filter_campaigns[i].end_date).ok =>
               (Occurrences(active_campaigns, filter_campaigns[i]) > 0
                <=> /\ Strptime(filter_campaigns[i].live_date).ordinal <= Today
                    /\ Today <= Strptime(filter_campaigns[i].end_date).ordinal)

\* C19: an unparseable date never makes filter_active_campaigns fail: the
\* record with it is left out, the records after it are still evaluated (each
\* record is in the output as often as in the input when its dates parse and
\* its window holds now, and not at all otherwise), and the output is the input
\* with records left out, in the same order.
UnparseableDatesExcluded ==
    pc = "filtered" =>
        /\ IsSubSeq(active_campaigns, filter_campaigns)
        /\ \A k \in DOMAIN active_campaigns :
              /\ Strptime(active_campaigns[k].live_date).ok
              /\ Strptime(active_campaigns[k].end_date).ok
        /\ \A i \in DOMAIN filter_campaigns :
              Occurrences(active_campaigns, filter_campaigns[i]) =
                 IF /\ Strptime(filter_campaigns[i].live_date).ok
                    /\ Strptime(filter_campaigns[i].end_date).ok
                    /\ Midnight(Strptime(filter_campaigns[i].live_date).ordinal)
                          <= current_date
                    /\ current_date
                          <= Midnight(Strptime(filter_campaigns[i].end_date).ordinal)
                 THEN Occurrences(filter_campaigns, filter_campaigns[i])
                 ELSE 0

\* a record without live date is left out and the active one after it is kept
UnparseableDatesExcludedWitness ==
    /\ pc = "filtered"
    /\ Len(filter_campaigns) = 2
    /\ filter_campaigns[1].live_date = <<>>
    /\ filter_campaigns[2] = Dated("P1", 100000, Text0106, Text3006)
    /\ active_campaigns = <<filter_campaigns[2]>>

\* the list of errors has the message
HasError(message) == \E k \in DOMAIN errors : errors[k] = message

\* C20: validate_campaign_data returns a list for every record and collects
\* every violated rule: each of the four required-field errors is in the list
\* iff its own field is empty (selling price: zero or negative), whatever the
\* other fields are; the list is empty iff no rule is violated (fields
\* present, dates parse, end after start); empty product_id, zero selling
\* price and empty dates give at least 3 errors.
ValidationCollectsAll ==
    pc = "validated" =>
        /\ HasError("Product ID is required") <=> raw_data.product_id = ""
        /\ HasError("Valid selling price is required") <=> raw_data.selling_price <= 0
        /\ HasError("Live date is required") <=> raw_data.live_date = <<>>
        /\ HasError("End date is required") <=> raw_data.end_date = <<>>
        /\ errors = <<>> <=>
              /\ raw_data.product_id # ""
              /\ raw_data.selling_price > 0
              /\ raw_data.live_date # <<>>
              /\ raw_data.end_date # <<>>
              /\ Strptime(raw_data.live_date).ok
              /\ Strptime(raw_data.end_date).ok
              /\ Strptime(raw_data.end_date).ordinal > Strptime(raw_data.live_date).ordinal
        /\ raw_data.product_id = "" /\ raw_data.selling_price = 0
           /\ raw_data.live_date = <<>> /\ raw_data.end_date = <<>> =>
              Len(errors) >= 3

\* the record of the specification: no product_id, price 0, no dates
ValidationCollectsAllWitness ==
    /\ pc = "validated"
    /\ raw_data = Dated("", 0, <<>>, <<>>)
    /\ Len(errors) >= 3
    /\ HasError("Product ID is required")
    /\ HasError("Valid selling price is required")
    /\ HasError("Live date is required")
    /\ HasError("End date is required")

\* the dates of the record as strptime reads them
LiveDate == Strptime(raw_data.live_date)

EndDate == Strptime(raw_data.end_date)

FormatError == "Invalid date format. Expected DD/MM/YYYY"

OrderingError == "End date must be after live date"

\* C21: in validate_campaign_data, when live_date or end_date does not parse
\* under DD/MM/YYYY the format error is reported exactly once and the ordering
\* error is not reported; the two errors are never in the same list.
FormatErrorSkipsOrdering ==
    pc = "validated" =>
        /\ ~LiveDate.ok \/ ~EndDate.ok =>
              /\ Occurrences(errors, FormatError) = 1
              /\ ~HasError(OrderingError)
        /\ ~(HasError(FormatError) /\ HasError(OrderingError))

\* neither date of an otherwise valid record parses: one format error, no more
FormatErrorSkipsOrderingWitness ==
    /\ pc = "validated"
    /\ raw_data = Dated("P1", 100000, TextIso, Text3106)
    /\ errors = <<FormatError>>

\* C22: in validate_campaign_data, when both dates parse, the ordering error
\* is reported iff end_date is not strictly after live_date: it is reported
\* (once) when the two days are equal and when the end is earlier (live
\* 20/01/2025, end 19/01/2025), and not when the end is a day or more later;
\* the format error is then not reported.
OrderingErrorIffNotAfter ==
    pc = "validated" /\ LiveDate.ok /\ EndDate.ok =>
        /\ HasError(OrderingError) <=> ~(EndDate.ordinal > LiveDate.ordinal)
        /\ EndDate.ordinal = LiveDate.ordinal => Occurrences(errors, OrderingError) = 1
        /\ EndDate.ordinal >= LiveDate.ordinal + 1 => ~HasError(OrderingError)
        /\ ~HasError(FormatError)
        /\ raw_data.live_date = Text2001 /\ raw_data.end_date = Text1901
           /\ raw_data.product_id # "" /\ raw_data.selling_price > 0 =>
              errors = <<OrderingError>>

\* a campaign that ends on the day it starts gets the ordering error
OrderingErrorIffNotAfterWitness ==
    /\ pc = "validated"
    /\ raw_data = Dated("P1", 100000, Text2001, Text2001)
    /\ errors = <<OrderingError>>

\* ------------------------------------------------ properties of the summary
SummaryKeys ==
    {"total_campaigns", "campaign_types", "avg_selling_price", "min_selling_price",
     "max_selling_price", "avg_mrp", "total_potential_revenue", "campaign_type_counts"}

\* C23: get_campaign_summary of an empty list is exactly the mapping
\* {total_campaigns: 0}, without any other key; of a non-empty list it has all
\* eight keys.
SummaryEmptyOnlyTotal ==
    pc = "summarized" =>
        /\ summary_campaigns = <<>> =>
              DOMAIN summary = {"total_campaigns"} /\ summary.total_campaigns = 0
        /\ summary_campaigns # <<>> =>
              DOMAIN summary = SummaryKeys /\ Cardinality(DOMAIN summary) = 8

\* the summary of no campaign at all
SummaryEmptyOnlyTotalWitness ==
    /\ pc = "summarized"
    /\ summary_campaigns = <<>>
    /\ summary = [total_campaigns |-> 0]

\* the campaigns summed up
Summed == DOMAIN summary_campaigns

\* the sum of the first k selling prices
RECURSIVE Revenue(_)
Revenue(k) ==
    IF k = 0 THEN 0
    ELSE Revenue(k - 1) + summary_campaigns[k].falcon_data.selling_price

RECURSIVE MrpTotal(_)
MrpTotal(k) ==
    IF k = 0 THEN 0 ELSE MrpTotal(k - 1) + summary_campaigns[k].falcon_data.MRP

\* the sum of the counts of the types in T
RECURSIVE CountsOver(_)
CountsOver(T) ==
    IF T = {} THEN 0
    ELSE summary.campaign_type_counts[CHOOSE t \in T : TRUE]
         + CountsOver(T \ {CHOOSE t \in T : TRUE})

\* C24: for a non-empty list, total_campaigns is the number of records,
\* campaign_types the set of the raw issue_type values, total_potential_revenue
\* the sum of the selling prices, min and max_selling_price their minimum and
\* maximum, campaign_type_counts maps each distinct issue_type to its number of
\* occurrences (its keys are campaign_types, its counts add up to
\* total_campaigns), and each average times the count is the sum.
SummaryAggregates ==
    pc = "summarized" /\ summary_campaigns # <<>> =>
        /\ summary.total_campaigns = Len(summary_campaigns)
        /\ summary.campaign_types = {summary_campaigns[i].raw_data.issue_type : i \in Summed}
        /\ summary.total_potential_revenue = Revenue(Len(summary_campaigns))
        /\ \E i \in Summed :
              summary.min_selling_price = summary_campaigns[i].falcon_data.selling_price
        /\ \A i \in Summed :
              summary.min_selling_price <= summary_campaigns[i].falcon_data.selling_price
        /\ \E i \in Summed :
              summary.max_selling_price = summary_campaigns[i].falcon_data.selling_price
        /\ \A i \in Summed :
              summary.max_selling_price >= summary_campaigns[i].falcon_data.selling_price
        /\ DOMAIN summary.campaign_type_counts = summary.campaign_types
        /\ \A t \in summary.campaign_types :
              summary.campaign_type_counts[t] =
                 Cardinality({i \in Summed : summary_campaigns[i].raw_data.issue_type = t})
        /\ CountsOver(summary.campaign_types) = summary.total_campaigns
        /\ summary.avg_selling_price.den > 0
        /\ summary.avg_selling_price.num * Len(summary_campaigns)
              = Revenue(Len(summary_campaigns)) * summary.avg_selling_price.den
        /\ summary.avg_mrp.den > 0
        /\ summary.avg_mrp.num * Len(summary_campaigns)
              = MrpTotal(Len(summary_campaigns)) * summary.avg_mrp.den

\* two campaigns of one type at different prices
SummaryAggregatesWitness ==
    /\ pc = "summarized"
    /\ summary_campaigns = <<Processed("DOD", 100000, 300000), Processed("DOD", 33333, 75000)>>
    /\ summary.campaign_type_counts["DOD"] = 2
    /\ summary.min_selling_price = 33333
    /\ summary.max_selling_price = 100000
    /\ summary.total_potential_revenue = 133333
    /\ summary.avg_selling_price = [num |-> 133333, den |-> 2]

\* ------------------------------------------ properties of the route handlers
\* the routes that run process_campaign_data
PipelineEndpoints ==
    {"campaigns", "campaigns/active", "campaigns/summary", "campaigns/export",
     "campaigns/product", "dashboard/campaigns"}

\* C25 (as stated): every record that reaches transform_to_falcon_format
\* through the routes (storage, optional activity filter,
\* process_campaign_data) has a non-empty product_id and a selling_price > 0.
ReachedRecordsComplete ==
    pc = "answered" =>
        \A i \in DOMAIN request.reached :
            /\ request.reached[i].product_id # ""
            /\ request.reached[i].selling_price > 0

\* C26 (as stated): whenever storage gave the raw records, a route that runs
\* the batch answers with a result that tells how many records succeeded and
\* failed, never with an error, also when records fail to transform.
BatchRoutesReportCounts ==
    pc = "answered" /\ request.endpoint \in PipelineEndpoints
    /\ request.obtained /\ request.raw_campaigns # <<>> =>
        /\ request.status_code = 200
        /\ request.body # "error"
        /\ request.stats # Nothing
        /\ request.stats[1].processed_count + request.stats[1].failed_count
              = request.stats[1].total_count

\* the records of the request with at least one validation error
Invalid ==
    {i \in DOMAIN request.raw_campaigns :
        ValidateCampaignData(request.raw_campaigns[i]) # <<>>}

\* C29: the validation route classifies every fetched record exactly once:
\* valid_campaigns + invalid_campaigns = total_campaigns = the number of
\* records, validation_errors has one entry for each invalid record, in input
\* order, with the product_id and the non-empty error list of that record; no
\* record is handed to the transform, no request goes to the PIM and the
\* client is left as it was.
ValidationClassifiesOnce ==
    pc = "answered" /\ request.endpoint = "campaigns/validate" /\ request.obtained =>
        /\ request.validation # Nothing
        /\ request.validation[1].total_campaigns = Len(request.raw_campaigns)
        /\ request.validation[1].valid_campaigns + request.validation[1].invalid_campaigns
              = request.validation[1].total_campaigns
        /\ request.validation[1].invalid_campaigns = Cardinality(Invalid)
        /\ Len(request.validation[1].validation_errors) = Cardinality(Invalid)
        /\ \E f \in [DOMAIN request.validation[1].validation_errors -> Invalid] :
              /\ \A j, k \in DOMAIN f : j < k => f[j] < f[k]
              /\ \A k \in DOMAIN f :
                    /\ request.validation[1].validation_errors[k].product_id
                          = request.raw_campaigns[f[k]].product_id
                    /\ request.validation[1].validation_errors[k].errors
                          = ValidateCampaignData(request.raw_campaigns[f[k]])
                    /\ request.validation[1].validation_errors[k].errors # <<>>
        /\ request.reached = <<>>
        /\ request.pim = 0
        /\ access_token = request.before.access_token
        /\ asset_token = request.before.asset_token

\* a valid record between two invalid ones: two entries, in input order
ValidationClassifiesOnceWitness ==
    /\ pc = "answered"
    /\ request.endpoint = "campaigns/validate"
    /\ Len(request.raw_campaigns) = 2
    /\ request.raw_campaigns[1].product_id = ""
    /\ request.raw_campaigns[2].issue_type = "FLASH_SALE"
    /\ request.validation[1].valid_campaigns = 1
    /\ request.validation[1].invalid_campaigns = 1
    /\ Len(request.validation[1].validation_errors) = 1
    /\ request.validation[1].validation_errors[1].product_id = ""
    /\ Len(request.validation[1].validation_errors[1].errors) = 5

====
